---- MODULE Spec2Model ----
(***************************************************************************)
(* Model of the simorg kernel (org_engine_replica) and its event-sourced   *)
(* runtime (org_runtime_rust): the transition kernel, the engine's gates,  *)
(* the canonical serializer, the proto codec, the length-prefixed event    *)
(* log, the snapshot layer and the session manager.                        *)
(*                                                                         *)
(* A Rust panic is modelled as a returned error tagged with the name the   *)
(* error taxonomy gives it; the panicking call leaves behind exactly the   *)
(* assignments it made before the panic.                                   *)
(***************************************************************************)
EXTENDS Integers, Sequences, FiniteSets, TLC

(***************************************************************************)
(* Bounds of the model.                                                    *)
(***************************************************************************)
\* Longest event sequence a session or an event store accepts in the model.
MaxSeq == 3
\* Stand-in for i64::MAX: the model's integers are narrower than 64 bits.
I64_MAX == 1000000000

(***************************************************************************)
(* Strings.  TLC strings are atomic, so the characters and the byte order  *)
(* of the strings the model uses are given by tables.                      *)
(***************************************************************************)
\* str::chars() over the role IDs of the model.
Chars(s) ==
    CASE s = "a"   -> <<"a">>
      [] s = "b"   -> <<"b">>
      [] s = "c"   -> <<"c">>
      [] s = "d"   -> <<"d">>
      [] s = "a b" -> <<"a", " ", "b">>
      [] s = ""    -> <<>>
      [] OTHER     -> <<"?">>

\* char::is_ascii_alphanumeric() || '_' || '-'
IsRoleIdChar(ch) == ch \in {"a", "b", "c", "d", "_", "-"}

\* Position of a string in UTF-8 byte order (String's Ord).
StrRank(s) ==
    CASE s = ""    -> 0
      [] s = "A"   -> 1
      [] s = "B"   -> 2
      [] s = "C"   -> 3
      [] s = "N"   -> 4
      [] s = "a"   -> 5
      [] s = "a b" -> 6
      [] s = "b"   -> 7
      [] s = "c"   -> 8
      [] s = "d"   -> 9
      [] s = "governance"    -> 10
      [] s = "growth"        -> 11
      [] s = "informational" -> 12
      [] s = "operational"   -> 13
      [] s = "p"   -> 14
      [] s = "q"   -> 15
      [] s = "r1"  -> 16
      [] s = "r2"  -> 17
      [] s = "r3"  -> 18
      [] s = "r4"  -> 19
      [] s = "seed" -> 20
      [] s = "x"   -> 21
      [] s = "y"   -> 22
      [] OTHER     -> 23

StrLess(a, b) == StrRank(a) < StrRank(b)

RECURSIVE InsertSorted(_, _)
InsertSorted(x, s) ==
    IF s = <<>> THEN <<x>>
    ELSE IF StrLess(x, Head(s)) THEN <<x>> \o s
    ELSE <<Head(s)>> \o InsertSorted(x, Tail(s))

\* Vec<String>::sort(): ascending, duplicates kept.
RECURSIVE SortStrings(_)
SortStrings(s) ==
    IF s = <<>> THEN <<>> ELSE InsertSorted(Head(s), SortStrings(Tail(s)))

SeqToSet(s) == { s[i] : i \in 1..Len(s) }

\* BTreeSet<String>::into_iter().collect(): ascending, no duplicates.
RECURSIVE SetToSortedSeq(_)
SetToSortedSeq(S) ==
    IF S = {} THEN <<>>
    ELSE LET m == CHOOSE x \in S : \A y \in S : StrRank(x) <= StrRank(y)
         IN  <<m>> \o SetToSortedSeq(S \ {m})

\* serde_json: v.get(key).is_some()
Has(p, k) == k \in DOMAIN p
\* v.get(key).and_then(as_str / as_i64 / as_array).unwrap_or(default)
GetOr(p, k, d) == IF Has(p, k) THEN p[k] ELSE d

\* json_str_array(v, key): the array under key, or an empty vector.
json_str_array(v, key) == GetOr(v, key, <<>>)
\* json_i64(v, key): the integer under key, or 0.
json_i64(v, key) == GetOr(v, key, 0)

(***************************************************************************)
(* arithmetic.rs                                                           *)
(***************************************************************************)
SCALE == 10000

\* i64::wrapping_add: the sum modulo 2^64, never a panic.
wrapping_add(a, b) ==
    [ok |-> TRUE, v |-> ((a + b + I64_MAX + 1) % (2 * I64_MAX + 2)) - I64_MAX - 1]

\* A checked operation yields [ok, v]; ok = FALSE is the Overflow panic.
checked_add(a, b) ==
    IF a + b > I64_MAX \/ a + b < -I64_MAX - 1
    THEN [ok |-> FALSE, v |-> 0]
    ELSE [ok |-> TRUE, v |-> a + b]

Abs(a) == IF a < 0 THEN -a ELSE a

checked_mul(a, b) ==
    IF a = 0 \/ b = 0 THEN [ok |-> TRUE, v |-> 0]
    ELSE IF (a > 0) = (b > 0) /\ Abs(a) > I64_MAX \div Abs(b)
    THEN [ok |-> FALSE, v |-> 0]
    ELSE IF (a > 0) # (b > 0) /\ Abs(a) > (I64_MAX + 1) \div Abs(b)
    THEN [ok |-> FALSE, v |-> 0]
    ELSE [ok |-> TRUE, v |-> a * b]

\* validate_role_id: TRUE when the ID matches [a-zA-Z0-9_-]+.
validate_role_id(role_id) ==
    /\ Chars(role_id) # <<>>
    /\ \A i \in 1..Len(Chars(role_id)) : IsRoleIdChar(Chars(role_id)[i])

\* Rust's truncating i64 division for a non-zero divisor.
TruncDiv(a, b) ==
    IF (a >= 0) = (b > 0) THEN Abs(a) \div Abs(b) ELSE -(Abs(a) \div Abs(b))

Max(a, b) == IF a >= b THEN a ELSE b

(***************************************************************************)
(* domain.rs, state.rs                                                     *)
(***************************************************************************)
DefaultConstants ==
    [ differentiation_threshold |-> 3,
      differentiation_min_capacity |-> 60000,
      compression_max_combined_responsibilities |-> 5,
      shock_deactivation_threshold |-> 8,
      shock_debt_base_multiplier |-> 1,
      suppressed_differentiation_debt_increment |-> 1 ]

DefaultConstraintVector ==
    [capital |-> 50000, talent |-> 50000, time |-> 50000, political_cost |-> 50000]

\* ConstraintVector::organizational_capacity_index, as [ok, v].
organizational_capacity_index(cv) ==
    LET l == checked_add(cv.capital, cv.talent)
        r == checked_add(cv.time, cv.political_cost)
    IN  IF ~l.ok \/ ~r.ok THEN [ok |-> FALSE, v |-> 0]
        ELSE LET t == checked_add(l.v, r.v)
             IN  IF ~t.ok THEN t ELSE [ok |-> TRUE, v |-> TruncDiv(t.v, 4)]

\* TransitionResult::default()
DefaultResult ==
    [ event_type |-> "", success |-> TRUE,
      differentiation_executed |-> FALSE, suppressed_differentiation |-> FALSE,
      differentiation_skipped |-> FALSE, compression_executed |-> FALSE,
      deactivated |-> FALSE, reason |-> <<>>,
      primary_debt |-> 0, secondary_debt |-> 0, target_density |-> 0,
      shock_target |-> "", magnitude |-> 0 ]

\* A BTreeMap with no entry.
EmptyMap == [k \in {} |-> 0]

\* An initial state that already holds a dependency edge.
InitialStateWithEdge ==
    [ roles |-> EmptyMap,
      dependencies |-> << [ from_role_id |-> "a", to_role_id |-> "b",
                            dependency_type |-> "operational", critical |-> FALSE ] >>,
      constraint_vector |-> DefaultConstraintVector,
      constants |-> DefaultConstants,
      scale_stage |-> "seed",
      structural_debt |-> 0,
      event_history |-> <<>> ]

\* create_initial_state(None, None, None, None, None, None)
create_initial_state ==
    [ roles |-> EmptyMap,
      dependencies |-> <<>>,
      constraint_vector |-> DefaultConstraintVector,
      constants |-> DefaultConstants,
      scale_stage |-> "seed",
      structural_debt |-> 0,
      event_history |-> <<>> ]

\* BTreeMap::insert / BTreeMap::remove
MapInsert(m, k, v) == [x \in DOMAIN m \cup {k} |-> IF x = k THEN v ELSE m[x]]
MapRemove(m, k) == [x \in DOMAIN m \ {k} |-> m[x]]

(***************************************************************************)
(* graph.rs                                                                *)
(***************************************************************************)
\* Number of edges with role_id as either endpoint.
IncidentCount(role_id, deps) ==
    Cardinality({ i \in 1..Len(deps) :
                    deps[i].from_role_id = role_id \/ deps[i].to_role_id = role_id })

\* compute_role_structural_density, as [ok, v].
compute_role_structural_density(role_id, state) ==
    IF state.dependencies = <<>> THEN [ok |-> TRUE, v |-> 0]
    ELSE LET count == IncidentCount(role_id, state.dependencies)
             total == Len(state.dependencies)
             m     == checked_mul(count, SCALE)
         IN  IF ~m.ok THEN m ELSE [ok |-> TRUE, v |-> TruncDiv(m.v, total)]

\* compute_structural_density, as [ok, v].
compute_structural_density(state) ==
    LET n == Cardinality(DOMAIN state.roles)
    IN  IF n < 2 THEN [ok |-> TRUE, v |-> 0]
        ELSE LET m == checked_mul(Len(state.dependencies), SCALE)
             IN  IF ~m.ok THEN m ELSE [ok |-> TRUE, v |-> TruncDiv(m.v, n * (n - 1))]

\* find_isolated_roles
find_isolated_roles(state) ==
    LET connected == { state.dependencies[i].from_role_id : i \in 1..Len(state.dependencies) }
                     \cup { state.dependencies[i].to_role_id : i \in 1..Len(state.dependencies) }
    IN  SetToSortedSeq(DOMAIN state.roles \ connected)

WHITE == 0
GREY == 1
BLACK == 2

\* critical_adj.get(node): the sorted targets of node's critical edges.
CriticalAdj(state, node) ==
    LET crit == SelectSeq(state.dependencies,
                          LAMBDA e : e.critical /\ e.from_role_id = node)
    IN  SortStrings([i \in 1..Len(crit) |-> crit[i].to_role_id])

\* colour.get(n).unwrap_or(&WHITE)
ColourOf(colour, n) == IF n \in DOMAIN colour THEN colour[n] ELSE WHITE

\* The cycle pushed on meeting a grey neighbour: nbr, then the stack from its
\* top down to nbr.
RECURSIVE CycleFrom(_, _)
CycleFrom(stack, nbr) ==
    IF stack = <<>> THEN <<>>
    ELSE LET sn == stack[Len(stack)][1]
         IN  IF sn = nbr THEN <<sn>>
             ELSE <<sn>> \o CycleFrom(SubSeq(stack, 1, Len(stack) - 1), nbr)

\* The while-let loop of the iterative DFS; d = [colour, stack, cycles].
RECURSIVE DfsLoop(_, _)
DfsLoop(state, d) ==
    IF d.stack = <<>> THEN d
    ELSE
      LET top  == d.stack[Len(d.stack)]
          node == top[1]
          idx  == top[2]
          nbrs == CriticalAdj(state, node)
      IN  IF idx < Len(nbrs)
          THEN LET stack1 == [d.stack EXCEPT ![Len(d.stack)] = <<node, idx + 1>>]
                   nbr    == nbrs[idx + 1]
                   c      == ColourOf(d.colour, nbr)
               IN  IF c = GREY
                   THEN DfsLoop(state, [d EXCEPT !.stack = stack1,
                            !.cycles = Append(@, <<nbr>> \o CycleFrom(stack1, nbr))])
                   ELSE IF c = WHITE
                   THEN DfsLoop(state, [d EXCEPT
                            !.colour = MapInsert(@, nbr, GREY),
                            !.stack = Append(stack1, <<nbr, 0>>)])
                   ELSE DfsLoop(state, [d EXCEPT !.stack = stack1])
          ELSE DfsLoop(state, [d EXCEPT
                   !.colour = MapInsert(@, node, BLACK),
                   !.stack = SubSeq(@, 1, Len(@) - 1)])

\* The for loop over the sorted role IDs.
RECURSIVE DfsStarts(_, _, _)
DfsStarts(state, starts, d) ==
    IF starts = <<>> THEN d
    ELSE IF ColourOf(d.colour, Head(starts)) # WHITE
    THEN DfsStarts(state, Tail(starts), d)
    ELSE DfsStarts(state, Tail(starts),
             DfsLoop(state, [d EXCEPT
                 !.colour = MapInsert(@, Head(starts), GREY),
                 !.stack = <<<<Head(starts), 0>>>>]))

\* detect_critical_cycles
detect_critical_cycles(state) ==
    DfsStarts(state, SetToSortedSeq(DOMAIN state.roles),
              [ colour |-> [r \in DOMAIN state.roles |-> WHITE],
                stack |-> <<>>, cycles |-> <<>> ]).cycles

(***************************************************************************)
(* invariants.rs: each check yields "ok" or the tag of its panic.          *)
(***************************************************************************)
check_role_id_format(state) ==
    IF \A rid \in DOMAIN state.roles : validate_role_id(rid)
    THEN "ok" ELSE "INVARIANT:role_id_format"

check_dependency_refs(state) ==
    IF \A i \in 1..Len(state.dependencies) :
          /\ state.dependencies[i].from_role_id \in DOMAIN state.roles
          /\ state.dependencies[i].to_role_id \in DOMAIN state.roles
    THEN "ok" ELSE "INVARIANT:dependency_refs"

check_orphaned_outputs(state) ==
    LET all_inputs == UNION { SeqToSet(state.roles[r].required_inputs) :
                              r \in DOMAIN state.roles }
    IN  IF \A r \in DOMAIN state.roles :
              SeqToSet(state.roles[r].produced_outputs) \subseteq all_inputs
        THEN "ok" ELSE "INVARIANT:orphaned_output"

check_duplicate_role_ids(state) ==
    LET ids == SetToSortedSeq(DOMAIN state.roles)
    IN  IF Len(ids) = Cardinality(SeqToSet(ids))
        THEN "ok" ELSE "INVARIANT:duplicate_role_ids"

check_at_least_one_active_role(state) ==
    IF DOMAIN state.roles = {} THEN "ok"
    ELSE IF \E r \in DOMAIN state.roles : state.roles[r].active
    THEN "ok" ELSE "INVARIANT:no_active_roles"

check_no_empty_responsibilities(state) ==
    IF \A r \in DOMAIN state.roles : state.roles[r].responsibilities # <<>>
    THEN "ok" ELSE "INVARIANT:empty_responsibilities"

check_no_critical_cycles(state) ==
    IF detect_critical_cycles(state) = <<>>
    THEN "ok" ELSE "INVARIANT:critical_cycle"

\* The first of a list of check outcomes that is not "ok".
RECURSIVE FirstFailure(_)
FirstFailure(outcomes) ==
    IF outcomes = <<>> THEN "ok"
    ELSE IF Head(outcomes) # "ok" THEN Head(outcomes)
    ELSE FirstFailure(Tail(outcomes))

\* validate_invariants: "ok", or the tag of the first check that panics.
validate_invariants(state) ==
    FirstFailure(<< check_role_id_format(state),
                    check_dependency_refs(state),
                    check_orphaned_outputs(state),
                    check_duplicate_role_ids(state),
                    check_at_least_one_active_role(state),
                    check_no_empty_responsibilities(state),
                    check_no_critical_cycles(state) >>)

\* The non-panicking variants: each yields "ok" or the tag its Err message
\* starts with.
try_check_role_id_format(state) ==
    IF \E rid \in DOMAIN state.roles :
          rid = "" \/ \E i \in 1..Len(Chars(rid)) : ~IsRoleIdChar(Chars(rid)[i])
    THEN "INVARIANT:role_id_format" ELSE "ok"

try_check_dependency_refs(state) ==
    IF \E i \in 1..Len(state.dependencies) :
          \/ state.dependencies[i].from_role_id \notin DOMAIN state.roles
          \/ state.dependencies[i].to_role_id \notin DOMAIN state.roles
    THEN "INVARIANT:dependency_refs" ELSE "ok"

try_check_orphaned_outputs(state) ==
    LET all_inputs == UNION { SeqToSet(state.roles[r].required_inputs) :
                              r \in DOMAIN state.roles }
    IN  IF \E r \in DOMAIN state.roles :
              \E i \in 1..Len(state.roles[r].produced_outputs) :
                  state.roles[r].produced_outputs[i] \notin all_inputs
        THEN "INVARIANT:orphaned_output" ELSE "ok"

try_check_duplicate_role_ids(state) ==
    LET ids == SetToSortedSeq(DOMAIN state.roles)
    IN  IF Len(ids) # Cardinality(SeqToSet(ids))
        THEN "INVARIANT:duplicate_role_ids" ELSE "ok"

try_check_at_least_one_active_role(state) ==
    IF DOMAIN state.roles = {} THEN "ok"
    ELSE IF ~\E r \in DOMAIN state.roles : state.roles[r].active
    THEN "INVARIANT:no_active_roles" ELSE "ok"

try_check_no_empty_responsibilities(state) ==
    IF \E r \in DOMAIN state.roles : state.roles[r].responsibilities = <<>>
    THEN "INVARIANT:empty_responsibilities" ELSE "ok"

try_check_no_critical_cycles(state) ==
    IF detect_critical_cycles(state) # <<>>
    THEN "INVARIANT:critical_cycle" ELSE "ok"

\* The ? operator: the first Err of the checks run so far, else the next.
TryThen(sofar, next) == IF sofar # "ok" THEN sofar ELSE next

\* A checker that runs the cycle check before the others.
CyclesCheckedFirst(state) ==
    TryThen(try_check_no_critical_cycles(state),
    TryThen(try_check_role_id_format(state),
    TryThen(try_check_dependency_refs(state),
    TryThen(try_check_orphaned_outputs(state),
    TryThen(try_check_duplicate_role_ids(state),
    TryThen(try_check_at_least_one_active_role(state),
            try_check_no_empty_responsibilities(state)))))))

\* try_validate_invariants: "ok", or the tag of the first Err.
try_validate_invariants(state) ==
    TryThen(try_check_role_id_format(state),
    TryThen(try_check_dependency_refs(state),
    TryThen(try_check_orphaned_outputs(state),
    TryThen(try_check_duplicate_role_ids(state),
    TryThen(try_check_at_least_one_active_role(state),
    TryThen(try_check_no_empty_responsibilities(state),
            try_check_no_critical_cycles(state)))))))

(***************************************************************************)
(* hashing.rs                                                              *)
(***************************************************************************)
KERNEL_VERSION == 1

\* One role object of the canonical form, fields in their fixed order.
CanonicalRole(r) ==
    << r.id, r.name, r.purpose,
       SortStrings(r.responsibilities), SortStrings(r.required_inputs),
       SortStrings(r.produced_outputs), r.scale_stage, r.active >>

\* The comparator of sorted_deps.sort_by: a strictly before b.
DepLess(a, b) ==
    \/ StrLess(a.from_role_id, b.from_role_id)
    \/ /\ a.from_role_id = b.from_role_id
       /\ \/ StrLess(a.to_role_id, b.to_role_id)
          \/ /\ a.to_role_id = b.to_role_id
             /\ StrLess(a.dependency_type, b.dependency_type)

\* Stable insertion: x goes after every element it is not strictly before.
RECURSIVE InsertDep(_, _)
InsertDep(s, x) ==
    IF s = <<>> THEN <<x>>
    ELSE IF DepLess(x, s[Len(s)]) 
    THEN InsertDep(SubSeq(s, 1, Len(s) - 1), x) \o <<s[Len(s)]>>
    ELSE s \o <<x>>

\* slice::sort_by (stable) on the dependencies.
RECURSIVE SortDeps(_)
SortDeps(s) ==
    IF s = <<>> THEN <<>>
    ELSE InsertDep(SortDeps(SubSeq(s, 1, Len(s) - 1)), s[Len(s)])

CanonicalDep(d) == <<d.from_role_id, d.to_role_id, d.dependency_type, d.critical>>

\* A serialization that writes every field of the state.
SerializeEveryField(state) == state

\* build_canonical_value / canonical_serialize: the canonical document, its
\* fields in their literal order.
canonical_serialize(state) ==
    LET ids  == SetToSortedSeq(DOMAIN state.roles)
        deps == SortDeps(state.dependencies)
    IN  << KERNEL_VERSION,
           [i \in 1..Len(ids) |-> CanonicalRole(state.roles[ids[i]])],
           [i \in 1..Len(deps) |-> CanonicalDep(deps[i])],
           << state.constraint_vector.capital, state.constraint_vector.talent,
              state.constraint_vector.time, state.constraint_vector.political_cost >>,
           state.structural_debt,
           state.scale_stage >>

\* SHA-256, taken as collision-free: the digest stands for its preimage.
Sha256(bytes) == <<"sha256", bytes>>

\* canonical_hash
canonical_hash(state) == Sha256(canonical_serialize(state))

(***************************************************************************)
(* events.rs                                                               *)
(***************************************************************************)
SCHEMA_VERSION == 1

\* EventEnvelope::to_dict: the entry pushed on event_history.
to_dict(event) ==
    [ event_type |-> event.event_type, timestamp |-> event.timestamp,
      sequence |-> event.sequence, logical_time |-> event.logical_time,
      payload |-> event.payload ]

(***************************************************************************)
(* transitions.rs.  A handler yields [ok, err, state, result]: on a panic  *)
(* ok = FALSE and err is the error's name.  Handlers work on the clone     *)
(* made by the dispatcher, so a failed handler leaves nothing behind.      *)
(***************************************************************************)
Fail(tag, state) == [ok |-> FALSE, err |-> tag, state |-> state, result |-> DefaultResult]
Done(state, result) == [ok |-> TRUE, err |-> "", state |-> state, result |-> result]

apply_initialize_constants(state, event) ==
    LET p   == event.payload
        old == state.constants
    IN  Done([state EXCEPT !.constants =
                [ differentiation_threshold |->
                    GetOr(p, "differentiation_threshold", old.differentiation_threshold),
                  differentiation_min_capacity |->
                    GetOr(p, "differentiation_min_capacity", old.differentiation_min_capacity),
                  compression_max_combined_responsibilities |->
                    GetOr(p, "compression_max_combined_responsibilities",
                          old.compression_max_combined_responsibilities),
                  shock_deactivation_threshold |->
                    GetOr(p, "shock_deactivation_threshold", old.shock_deactivation_threshold),
                  shock_debt_base_multiplier |->
                    GetOr(p, "shock_debt_base_multiplier", old.shock_debt_base_multiplier),
                  suppressed_differentiation_debt_increment |->
                    GetOr(p, "suppressed_differentiation_debt_increment",
                          old.suppressed_differentiation_debt_increment) ]],
             [DefaultResult EXCEPT !.event_type = "initialize_constants"])

apply_add_role(state, event) ==
    LET p == event.payload
    IN  IF ~Has(p, "id") THEN Fail("MissingField", state)
        ELSE IF ~validate_role_id(p.id) THEN Fail("InvalidRoleId", state)
        ELSE IF p.id \in DOMAIN state.roles THEN Fail("RoleIdCollision", state)
        ELSE IF ~Has(p, "name") \/ ~Has(p, "purpose") THEN Fail("MissingField", state)
        ELSE
          LET role == [ id |-> p.id,
                        name |-> p.name,
                        purpose |-> p.purpose,
                        responsibilities |-> SortStrings(json_str_array(p, "responsibilities")),
                        required_inputs |-> SortStrings(json_str_array(p, "required_inputs")),
                        produced_outputs |-> SortStrings(json_str_array(p, "produced_outputs")),
                        scale_stage |-> GetOr(p, "scale_stage", state.scale_stage),
                        active |-> TRUE ]
          IN  Done([state EXCEPT !.roles = MapInsert(@, role.id, role)],
                   [DefaultResult EXCEPT !.event_type = "add_role"])

\* A remove_role that keeps the role and marks it inactive.
DeactivateRole(state, event) ==
    IF ~Has(event.payload, "role_id") THEN Fail("MissingField", state)
    ELSE IF event.payload.role_id \notin DOMAIN state.roles THEN Fail("RoleNotFound", state)
    ELSE Done([state EXCEPT !.roles[event.payload.role_id].active = FALSE],
              [DefaultResult EXCEPT !.event_type = "remove_role"])

apply_remove_role(state, event) ==
    LET p == event.payload
    IN  IF ~Has(p, "role_id") THEN Fail("MissingField", state)
        ELSE IF p.role_id \notin DOMAIN state.roles THEN Fail("RoleNotFound", state)
        ELSE Done([state EXCEPT
                     !.roles = MapRemove(@, p.role_id),
                     !.dependencies = SelectSeq(@, LAMBDA d :
                         d.from_role_id # p.role_id /\ d.to_role_id # p.role_id)],
                  [DefaultResult EXCEPT !.event_type = "remove_role"])

\* The for loop over new_roles of an executed differentiation: [ok, err, roles].
RECURSIVE InsertNewRoles(_, _, _)
InsertNewRoles(roles, new_roles_data, role) ==
    IF new_roles_data = <<>> THEN [ok |-> TRUE, err |-> "", roles |-> roles]
    ELSE
      LET nr == Head(new_roles_data)
      IN  IF ~Has(nr, "id") THEN [ok |-> FALSE, err |-> "MissingField", roles |-> roles]
          ELSE IF ~validate_role_id(nr.id)
          THEN [ok |-> FALSE, err |-> "InvalidRoleId", roles |-> roles]
          ELSE IF ~Has(nr, "name")
          THEN [ok |-> FALSE, err |-> "MissingField", roles |-> roles]
          ELSE
            LET sub == [ id |-> nr.id,
                         name |-> nr.name,
                         purpose |-> GetOr(nr, "purpose", role.purpose),
                         responsibilities |->
                             SortStrings(json_str_array(nr, "responsibilities")),
                         required_inputs |->
                             SortStrings(IF Has(nr, "required_inputs")
                                         THEN json_str_array(nr, "required_inputs")
                                         ELSE role.required_inputs),
                         produced_outputs |->
                             SortStrings(json_str_array(nr, "produced_outputs")),
                         scale_stage |-> role.scale_stage,
                         active |-> TRUE ]
            IN  InsertNewRoles(MapInsert(roles, sub.id, sub), Tail(new_roles_data), role)

\* A suppression that always adds the default increment.
DebtPlusOne(state, c) == checked_add(state.structural_debt, 1)

\* checked_add(state.structural_debt, c.suppressed_differentiation_debt_increment)
SuppressedDebt(state, c) ==
    checked_add(state.structural_debt, c.suppressed_differentiation_debt_increment)

\* A threshold test that also sends a role at the threshold on.
AtOrOverThreshold(role, c) == Len(role.responsibilities) >= c.differentiation_threshold

\* (role.responsibilities.len() as i64) > c.differentiation_threshold
OverThreshold(role, c) == Len(role.responsibilities) > c.differentiation_threshold

apply_differentiate_role(state, event) ==
    LET p == event.payload
    IN  IF ~Has(p, "role_id") THEN Fail("MissingField", state)
        ELSE IF p.role_id \notin DOMAIN state.roles THEN Fail("RoleNotFound", state)
        ELSE
          LET role == state.roles[p.role_id]
              c    == state.constants
          IN  IF OverThreshold(role, c)
              THEN
                LET capacity == organizational_capacity_index(state.constraint_vector)
                IN  IF ~capacity.ok THEN Fail("Overflow", state)
                    ELSE IF capacity.v >= c.differentiation_min_capacity
                    THEN
                      IF ~Has(p, "new_roles") THEN Fail("MissingNewRoles", state)
                      ELSE IF p.new_roles = <<>> THEN Fail("MissingNewRoles", state)
                      ELSE
                        LET ins == InsertNewRoles(MapRemove(state.roles, p.role_id),
                                                  p.new_roles, role)
                        IN  IF ~ins.ok THEN Fail(ins.err, state)
                            ELSE Done([state EXCEPT !.roles = ins.roles],
                                      [DefaultResult EXCEPT
                                         !.event_type = "differentiate_role",
                                         !.differentiation_executed = TRUE])
                    ELSE
                      LET debt == SuppressedDebt(state, c)
                      IN  IF ~debt.ok THEN Fail("Overflow", state)
                          ELSE Done([state EXCEPT !.structural_debt = debt.v],
                                    [DefaultResult EXCEPT
                                       !.event_type = "differentiate_role",
                                       !.suppressed_differentiation = TRUE,
                                       !.reason = <<"capacity=", capacity.v,
                                                    " < differentiation_min_capacity=",
                                                    c.differentiation_min_capacity>>])
              ELSE Done(state,
                        [DefaultResult EXCEPT
                           !.event_type = "differentiate_role",
                           !.differentiation_skipped = TRUE,
                           !.reason = <<"responsibilities=", Len(role.responsibilities),
                                        " <= differentiation_threshold=",
                                        c.differentiation_threshold>>])

\* The dependency rewrite of a compression: source endpoints become the target.
RewriteDep(dep, src_id, tgt_id) ==
    [dep EXCEPT !.from_role_id = IF @ = src_id THEN tgt_id ELSE @,
                !.to_role_id   = IF @ = src_id THEN tgt_id ELSE @]

\* A size test that also refuses a union exactly at the maximum.
AtOrOverCompressionMax(combined, c) ==
    Len(combined) >= c.compression_max_combined_responsibilities

\* (combined.len() as i64) > c.compression_max_combined_responsibilities
OverCompressionMax(combined, c) ==
    Len(combined) > c.compression_max_combined_responsibilities

apply_compress_roles(state, event) ==
    LET p == event.payload
    IN  IF ~Has(p, "source_role_id") \/ ~Has(p, "target_role_id")
        THEN Fail("MissingField", state)
        ELSE IF p.source_role_id \notin DOMAIN state.roles THEN Fail("RoleNotFound", state)
        ELSE IF p.target_role_id \notin DOMAIN state.roles THEN Fail("RoleNotFound", state)
        ELSE
          LET src_id == p.source_role_id
              tgt_id == p.target_role_id
              src == state.roles[src_id]
              tgt == state.roles[tgt_id]
              c   == state.constants
              combined == SetToSortedSeq(SeqToSet(tgt.responsibilities)
                                         \cup SeqToSet(src.responsibilities))
          IN  IF OverCompressionMax(combined, c)
              THEN Fail("CompressionTooLarge", state)
              ELSE
                LET target == [tgt EXCEPT
                        !.name = GetOr(p, "compressed_name", tgt.name),
                        !.purpose = GetOr(p, "compressed_purpose", tgt.purpose),
                        !.responsibilities = combined,
                        !.required_inputs =
                            SetToSortedSeq(SeqToSet(tgt.required_inputs)
                                           \cup SeqToSet(src.required_inputs)),
                        !.produced_outputs =
                            SetToSortedSeq(SeqToSet(tgt.produced_outputs)
                                           \cup SeqToSet(src.produced_outputs))]
                    rewritten == [i \in 1..Len(state.dependencies) |->
                                    RewriteDep(state.dependencies[i], src_id, tgt_id)]
                IN  Done([state EXCEPT
                            !.roles = MapRemove(MapInsert(@, tgt_id, target), src_id),
                            !.dependencies = SelectSeq(rewritten, LAMBDA d :
                                d.from_role_id # d.to_role_id)],
                         [DefaultResult EXCEPT
                            !.event_type = "compress_roles",
                            !.compression_executed = TRUE])

\* A constraint change without the guard against negative components.
NegativeUnguarded(capital, talent, time, political_cost) == FALSE

\* cv.capital < 0 || cv.talent < 0 || cv.time < 0 || cv.political_cost < 0
NegativeComponent(capital, talent, time, political_cost) ==
    capital < 0 \/ talent < 0 \/ time < 0 \/ political_cost < 0

apply_constraint_change(state, event) ==
    LET p  == event.payload
        cv == state.constraint_vector
        capital == checked_add(cv.capital, json_i64(p, "capital_delta"))
        talent  == checked_add(cv.talent, json_i64(p, "talent_delta"))
        time    == checked_add(cv.time, json_i64(p, "time_delta"))
        political_cost == checked_add(cv.political_cost, json_i64(p, "political_cost_delta"))
    IN  IF ~capital.ok \/ ~talent.ok \/ ~time.ok \/ ~political_cost.ok
        THEN Fail("Overflow", state)
        ELSE IF NegativeComponent(capital.v, talent.v, time.v, political_cost.v)
        THEN Fail("NegativeConstraint", state)
        ELSE Done([state EXCEPT !.constraint_vector =
                      [ capital |-> capital.v, talent |-> talent.v,
                        time |-> time.v, political_cost |-> political_cost.v ]],
                  [DefaultResult EXCEPT !.event_type = "apply_constraint_change"])

\* A propagation that follows the target's outgoing edges only.
OutgoingIds(target_id, deps) ==
    { deps[i].to_role_id : i \in { j \in 1..Len(deps) : deps[j].from_role_id = target_id } }

\* connected_ids of a shock: the other endpoint of every edge at the target.
ConnectedIds(target_id, deps) ==
    { deps[i].to_role_id : i \in { j \in 1..Len(deps) : deps[j].from_role_id = target_id } }
    \cup
    { deps[i].from_role_id : i \in { j \in 1..Len(deps) :
          deps[j].from_role_id # target_id /\ deps[j].to_role_id = target_id } }

\* The propagation loop of a shock over the connected IDs: [ok, v].
RECURSIVE SecondaryDebt(_, _, _, _, _)
SecondaryDebt(cids, roles, magnitude, original_state, acc) ==
    IF cids = <<>> THEN [ok |-> TRUE, v |-> acc]
    ELSE IF Head(cids) \notin DOMAIN roles
    THEN SecondaryDebt(Tail(cids), roles, magnitude, original_state, acc)
    ELSE
      LET d == compute_role_structural_density(Head(cids), original_state)
      IN  IF ~d.ok THEN d
          ELSE LET m == checked_mul(magnitude, d.v)
               IN  IF ~m.ok THEN m
                   ELSE LET s == checked_add(acc, Max(m.v, 1))
                        IN  IF ~s.ok THEN s
                            ELSE SecondaryDebt(Tail(cids), roles, magnitude,
                                               original_state, s.v)

apply_inject_shock(state, event, original_state) ==
    LET p == event.payload
    IN  IF ~Has(p, "target_role_id") \/ ~Has(p, "magnitude")
        THEN Fail("MissingField", state)
        ELSE IF p.target_role_id \notin DOMAIN state.roles THEN Fail("RoleNotFound", state)
        ELSE
          LET target_id == p.target_role_id
              magnitude == p.magnitude
              c == state.constants
              target_density == compute_role_structural_density(target_id, original_state)
              factor == checked_add(c.shock_debt_base_multiplier, target_density.v)
              product == checked_mul(magnitude, factor.v)
              primary_debt == Max(product.v, 1)
              debt1 == checked_add(state.structural_debt, primary_debt)
              deactivated == magnitude > c.shock_deactivation_threshold
              roles1 == IF deactivated
                        THEN [state.roles EXCEPT ![target_id].active = FALSE]
                        ELSE state.roles
              secondary == SecondaryDebt(
                               SetToSortedSeq(ConnectedIds(target_id,
                                                           original_state.dependencies)),
                               roles1, magnitude, original_state, 0)
              debt2 == checked_add(debt1.v, secondary.v)
          IN  IF ~target_density.ok \/ ~factor.ok \/ ~product.ok \/ ~debt1.ok
                 \/ ~secondary.ok \/ ~debt2.ok
              THEN Fail("Overflow", state)
              ELSE Done([state EXCEPT !.structural_debt = debt2.v, !.roles = roles1],
                        [DefaultResult EXCEPT
                           !.event_type = "inject_shock",
                           !.deactivated = deactivated,
                           !.shock_target = target_id,
                           !.magnitude = magnitude,
                           !.primary_debt = primary_debt,
                           !.secondary_debt = secondary.v,
                           !.target_density = target_density.v])

\* The match of the dispatcher.
Dispatch(state, event) ==
    CASE event.event_type = "initialize_constants" -> apply_initialize_constants(state, event)
      [] event.event_type = "add_role" -> apply_add_role(state, event)
      [] event.event_type = "remove_role" -> apply_remove_role(state, event)
      [] event.event_type = "differentiate_role" -> apply_differentiate_role(state, event)
      [] event.event_type = "compress_roles" -> apply_compress_roles(state, event)
      [] event.event_type = "apply_constraint_change" -> apply_constraint_change(state, event)
      [] event.event_type = "inject_shock" -> apply_inject_shock(state, event, state)
      [] OTHER -> Fail("UnknownEventType", state)

\* The end of transitions::apply_event: r is what the handler returned on the
\* clone; the event is pushed on the clone's event_history.
PushHistory(r, event) ==
    IF ~r.ok THEN r
    ELSE [r EXCEPT !.state.event_history = Append(@, to_dict(event))]

\* transitions::apply_event
transition_apply(state, event) == PushHistory(Dispatch(state, event), event)

(***************************************************************************)
(* engine.rs.  The engine is [state, last_sequence, constants_initialized] *)
(* as initialize_state leaves it; apply_event yields [engine, ok, err,     *)
(* result], engine being what the engine holds when the call returns or    *)
(* panics.                                                                 *)
(***************************************************************************)
\* OrgEngine::new followed by initialize_state.
initialize_state ==
    [state |-> create_initial_state, last_sequence |-> 0, constants_initialized |-> FALSE]

Rejected(eng, tag) == [engine |-> eng, ok |-> FALSE, err |-> tag, result |-> DefaultResult]

\* An engine that takes any schema version.
SchemaUnchecked(event) == FALSE

\* Schema version enforcement: TRUE when the event is refused.
SchemaMismatch(event) == event.schema_version # SCHEMA_VERSION

\* An engine whose sequence check lets a gap through.
SequenceBehind(eng, event) == event.sequence <= eng.last_sequence

\* Sequence enforcement: TRUE when the event is refused.
SequenceMismatch(eng, event) == event.sequence # eng.last_sequence + 1

\* An engine without the constants-first rule.
ConstantsGateOpen(eng, event) == FALSE

\* Constants-first enforcement, first arm: TRUE when the event is refused.
ConstantsNotInitialized(eng, event) ==
    ~eng.constants_initialized /\ event.event_type # "initialize_constants"

\* Constants-first enforcement, second arm: TRUE when the event is refused.
ConstantsAlreadyInitialized(eng, event) ==
    eng.constants_initialized /\ event.event_type = "initialize_constants"

\* An engine that does not validate the new state.
InvariantsUnchecked(new_state) == "ok"

\* validate_invariants(&new_state) as called by the engine.
InvariantGate(new_state) == validate_invariants(new_state)

\* An engine that stores the new state before it validates it.
StoredBeforeValidation(eng, new_state) == [eng EXCEPT !.state = new_state]

\* The engine after validate_invariants panicked: the panic comes before the
\* assignments to self.state and self.last_sequence.
AfterInvariantPanic(eng, new_state) == eng

\* The engine after the two assignments that commit an accepted event.
Commit(eng, new_state, event) ==
    [eng EXCEPT !.state = new_state, !.last_sequence = event.sequence]

\* The end of OrgEngine::apply_event, t being what transition_apply returned:
\* validate the new state, store it, return.
ValidateAndStore(eng1, event, t) ==
    IF ~t.ok THEN Rejected(eng1, t.err)
    ELSE IF InvariantGate(t.state) # "ok"
    THEN Rejected(AfterInvariantPanic(eng1, t.state), InvariantGate(t.state))
    ELSE [ engine |-> Commit(eng1, t.state, event),
           ok |-> TRUE, err |-> "", result |-> t.result ]

\* OrgEngine::apply_event: [engine, ok, err, result].  A panic is the error
\* `err`; the engine is what the panic leaves behind.
engine_apply_event(eng, event) ==
    IF SchemaMismatch(event) THEN Rejected(eng, "SchemaVersionMismatch")
    ELSE IF SequenceMismatch(eng, event) THEN Rejected(eng, "SequenceViolation")
    ELSE IF ConstantsNotInitialized(eng, event)
    THEN Rejected(eng, "ConstantsNotInitialized")
    ELSE IF ConstantsAlreadyInitialized(eng, event)
    THEN Rejected(eng, "ConstantsAlreadyInitialized")
    ELSE ValidateAndStore([eng EXCEPT !.constants_initialized = TRUE], event,
                          transition_apply(eng.state, event))

(***************************************************************************)
(* proto_types.rs, proto_bridge.rs.  A proto message is a record of its    *)
(* fields; the oneof is the record's kind.                                 *)
(***************************************************************************)
\* p[key].as_u64().unwrap_or(d) as u32.  The model's integers stay below
\* 2^31, where the cast to u32 changes nothing.
AsU32Or(p, key, d) == IF Has(p, key) /\ p[key] >= 0 THEN p[key] ELSE d

\* p[key].as_i64().unwrap_or(d)
AsI64Or(p, key, d) == GetOr(p, key, d)

\* p[key].as_str().unwrap_or("")
AsStrOr(p, key) == GetOr(p, key, "")

json_to_proto_role(v) ==
    [ id |-> AsStrOr(v, "id"),
      name |-> AsStrOr(v, "name"),
      purpose |-> AsStrOr(v, "purpose"),
      responsibilities |-> json_str_array(v, "responsibilities"),
      required_inputs |-> json_str_array(v, "required_inputs"),
      produced_outputs |-> json_str_array(v, "produced_outputs"),
      scale_stage |-> GetOr(v, "scale_stage", "seed"),
      active |-> GetOr(v, "active", TRUE) ]

\* The match of kernel_to_proto: the oneof, or kind "panic" for an unknown type.
KernelToProtoKind(kernel) ==
    LET p == kernel.payload
    IN  CASE kernel.event_type = "initialize_constants" ->
               [ kind |-> "InitializeConstants",
                 constants |->
                   [ differentiation_threshold |-> AsU32Or(p, "differentiation_threshold", 3),
                     differentiation_min_capacity |->
                       AsI64Or(p, "differentiation_min_capacity", 60000),
                     compression_max_combined_responsibilities |->
                       AsU32Or(p, "compression_max_combined_responsibilities", 5),
                     shock_deactivation_threshold |->
                       AsU32Or(p, "shock_deactivation_threshold", 8),
                     shock_debt_base_multiplier |->
                       AsU32Or(p, "shock_debt_base_multiplier", 1),
                     suppressed_differentiation_debt_increment |->
                       AsU32Or(p, "suppressed_differentiation_debt_increment", 1) ] ]
          [] kernel.event_type = "add_role" ->
               [kind |-> "AddRole", role |-> json_to_proto_role(p)]
          [] kernel.event_type = "remove_role" ->
               [kind |-> "RemoveRole", role_id |-> AsStrOr(p, "role_id")]
          [] kernel.event_type = "differentiate_role" ->
               [ kind |-> "DifferentiateRole",
                 role_id |-> AsStrOr(p, "role_id"),
                 new_roles |-> LET arr == GetOr(p, "new_roles", <<>>)
                               IN  [i \in 1..Len(arr) |-> json_to_proto_role(arr[i])] ]
          [] kernel.event_type = "compress_roles" ->
               [ kind |-> "CompressRoles",
                 source_role_id |-> AsStrOr(p, "source_role_id"),
                 target_role_id |-> AsStrOr(p, "target_role_id"),
                 compressed_name |-> AsStrOr(p, "compressed_name"),
                 compressed_purpose |-> AsStrOr(p, "compressed_purpose") ]
          [] kernel.event_type = "apply_constraint_change" ->
               [ kind |-> "ApplyConstraintChange",
                 capital_delta |-> AsI64Or(p, "capital_delta", 0),
                 talent_delta |-> AsI64Or(p, "talent_delta", 0),
                 time_delta |-> AsI64Or(p, "time_delta", 0),
                 political_cost_delta |-> AsI64Or(p, "political_cost_delta", 0) ]
          [] kernel.event_type = "inject_shock" ->
               [ kind |-> "InjectShock",
                 target_role_id |-> AsStrOr(p, "target_role_id"),
                 magnitude |-> AsU32Or(p, "magnitude", 0) ]
          [] OTHER -> [kind |-> "panic"]

\* kernel_to_proto
kernel_to_proto(kernel) ==
    [ sequence |-> kernel.sequence,
      logical_time |-> kernel.logical_time,
      event |-> KernelToProtoKind(kernel) ]

\* The JSON object proto_to_kernel builds for a ProtoRole of new_roles.
ProtoRoleToJson(r) ==
    [ id |-> r.id, name |-> r.name, purpose |-> r.purpose,
      responsibilities |-> r.responsibilities,
      required_inputs |-> r.required_inputs,
      produced_outputs |-> r.produced_outputs ]

\* The match of proto_to_kernel: <<event_type, payload>>.
ProtoToKernelKind(ev) ==
    CASE ev.kind = "InitializeConstants" ->
           << "initialize_constants",
              [ differentiation_threshold |-> ev.constants.differentiation_threshold,
                differentiation_min_capacity |-> ev.constants.differentiation_min_capacity,
                compression_max_combined_responsibilities |->
                    ev.constants.compression_max_combined_responsibilities,
                shock_deactivation_threshold |-> ev.constants.shock_deactivation_threshold,
                shock_debt_base_multiplier |-> ev.constants.shock_debt_base_multiplier,
                suppressed_differentiation_debt_increment |->
                    ev.constants.suppressed_differentiation_debt_increment ] >>
      [] ev.kind = "AddRole" ->
           << "add_role",
              [ id |-> ev.role.id, name |-> ev.role.name, purpose |-> ev.role.purpose,
                responsibilities |-> ev.role.responsibilities,
                required_inputs |-> ev.role.required_inputs,
                produced_outputs |-> ev.role.produced_outputs,
                scale_stage |-> ev.role.scale_stage ] >>
      [] ev.kind = "RemoveRole" ->
           << "remove_role", [role_id |-> ev.role_id] >>
      [] ev.kind = "DifferentiateRole" ->
           << "differentiate_role",
              [ role_id |-> ev.role_id,
                new_roles |-> [i \in 1..Len(ev.new_roles) |->
                                 ProtoRoleToJson(ev.new_roles[i])] ] >>
      [] ev.kind = "CompressRoles" ->
           << "compress_roles",
              [ source_role_id |-> ev.source_role_id,
                target_role_id |-> ev.target_role_id,
                compressed_name |-> ev.compressed_name,
                compressed_purpose |-> ev.compressed_purpose ] >>
      [] ev.kind = "ApplyConstraintChange" ->
           << "apply_constraint_change",
              [ capital_delta |-> ev.capital_delta, talent_delta |-> ev.talent_delta,
                time_delta |-> ev.time_delta,
                political_cost_delta |-> ev.political_cost_delta ] >>
      [] ev.kind = "InjectShock" ->
           << "inject_shock",
              [target_role_id |-> ev.target_role_id, magnitude |-> ev.magnitude] >>

\* proto_to_kernel
proto_to_kernel(proto) ==
    LET km == ProtoToKernelKind(proto.event)
    IN  [ event_type |-> km[1],
          sequence |-> proto.sequence,
          timestamp |-> "",
          logical_time |-> proto.logical_time,
          payload |-> km[2],
          schema_version |-> 1 ]

(***************************************************************************)
(* event_store.rs.  events.log is a sequence of units: the four bytes of a *)
(* frame's little-endian length, [k |-> "len", n |-> byte], then the       *)
(* frame's body, one unit for each field prost writes.                     *)
(***************************************************************************)
\* u32::to_le_bytes
ToLeBytes(len) ==
    << [k |-> "len", n |-> len % 256],
       [k |-> "len", n |-> (len \div 256) % 256],
       [k |-> "len", n |-> (len \div 65536) % 256],
       [k |-> "len", n |-> len \div 16777216] >>

\* u32::from_le_bytes
FromLeBytes(b) == b[1].n + 256 * b[2].n + 65536 * b[3].n + 16777216 * b[4].n

\* Message::encode_to_vec of a ProtoEventEnvelope: proto3 leaves out a scalar
\* field that holds its default and a oneof that is not set.
encode_to_vec(proto) ==
    (IF proto.sequence # 0 THEN <<[k |-> "seq", n |-> proto.sequence]>> ELSE <<>>)
    \o (IF proto.logical_time # 0 THEN <<[k |-> "lt", n |-> proto.logical_time]>> ELSE <<>>)
    \o (IF proto.event.kind # "None" THEN <<[k |-> "ev", ev |-> proto.event]>> ELSE <<>>)

\* The value of the last unit of kind k in a frame body, or d.
FieldN(frame, kind, d) ==
    LET at == { i \in 1..Len(frame) : frame[i].k = kind }
    IN  IF at = {} THEN d ELSE frame[CHOOSE i \in at : \A j \in at : j <= i].n

\* ProtoEventEnvelope::decode: [ok, msg].
decode(frame) ==
    IF \E i \in 1..Len(frame) : frame[i].k \notin {"seq", "lt", "ev"}
    THEN [ok |-> FALSE, msg |-> [sequence |-> 0, logical_time |-> 0, event |-> [kind |-> "None"]]]
    ELSE LET at == { i \in 1..Len(frame) : frame[i].k = "ev" }
         IN  [ ok |-> TRUE,
               msg |-> [ sequence |-> FieldN(frame, "seq", 0),
                         logical_time |-> FieldN(frame, "lt", 0),
                         event |-> IF at = {} THEN [kind |-> "None"]
                                   ELSE frame[CHOOSE i \in at : \A j \in at : j <= i].ev ] ]

\* What reader.read_exact(&mut len_buf) yields at the top of the loop with
\* `bytes` left to read: TRUE for Ok, FALSE for UnexpectedEof (the loop breaks).
ReadLenOk(bytes) == Len(bytes) >= 4

\* EventStore::read_all_from_file, the loop from the current read position:
\* [ok, err, events].
RECURSIVE ReadFrames(_, _)
ReadFrames(bytes, events) ==
    IF ~ReadLenOk(bytes) THEN [ok |-> TRUE, err |-> "", events |-> events]
    ELSE
      LET len == FromLeBytes(SubSeq(bytes, 1, 4))
      IN  IF len = 0 \/ len > 16 * 1024 * 1024
          THEN [ok |-> FALSE, err |-> "FrameLengthOutOfRange", events |-> events]
          ELSE IF Len(bytes) - 4 < len
          THEN [ok |-> FALSE, err |-> "Corruption", events |-> events]
          ELSE
            LET d == decode(SubSeq(bytes, 5, 4 + len))
            IN  IF ~d.ok THEN [ok |-> FALSE, err |-> "Corruption", events |-> events]
                ELSE ReadFrames(SubSeq(bytes, 5 + len, Len(bytes)), Append(events, d.msg))

read_all_from_file(bytes) == ReadFrames(bytes, <<>>)

\* EventStore::load_all_events
load_all_events(bytes) == read_all_from_file(bytes)

\* A store that opens every log at sequence 0.
LastSequenceZero(r) ==
    [ok |-> r.ok, err |-> IF r.ok THEN "" ELSE r.err, last_sequence |-> 0]

\* The end of EventStore::open, r being what read_all_from_file returned.
LastSequenceOf(r) ==
    IF ~r.ok THEN [ok |-> FALSE, err |-> r.err, last_sequence |-> 0]
    ELSE [ ok |-> TRUE, err |-> "",
           last_sequence |-> IF r.events = <<>> THEN 0
                             ELSE r.events[Len(r.events)].sequence ]

\* EventStore::open: [ok, err, last_sequence].
EventStoreOpen(bytes) == LastSequenceOf(read_all_from_file(bytes))

\* A store that appends whatever sequence number it is given.
AppendUnchecked(last_sequence, proto) == FALSE

\* The sequence check of append_event: TRUE when the append is refused.
AppendSequenceMismatch(last_sequence, proto) == proto.sequence # last_sequence + 1

\* The bytes one append_event writes.
FrameBytes(proto) == ToLeBytes(Len(encode_to_vec(proto))) \o encode_to_vec(proto)

\* A file opened for writing without the append flag: the write starts at
\* offset 0, over what the file holds.
WriteFromStart(bytes, frame) ==
    frame \o SubSeq(bytes, Len(frame) + 1, Len(bytes))

\* OpenOptions::new().create(true).append(true): every write goes to the end
\* of the file.
WriteAtEnd(bytes, frame) == bytes \o frame

\* EventStore::append_event: [ok, err, last_sequence, bytes].
append_event(last_sequence, bytes, proto) ==
    IF AppendSequenceMismatch(last_sequence, proto)
    THEN [ok |-> FALSE, err |-> "SequenceViolation",
          last_sequence |-> last_sequence, bytes |-> bytes]
    ELSE [ok |-> TRUE, err |-> "",
          last_sequence |-> proto.sequence, bytes |-> WriteAtEnd(bytes, FrameBytes(proto))]

(***************************************************************************)
(* snapshot.rs.  The snapshots directory maps a sequence number (the file  *)
(* snapshot_NNNNNN.json) to the Snapshot record stored in the file.        *)
(***************************************************************************)
\* A save_snapshot whose hash is not the hash of the state it serializes.
HashOfAnotherState(sequence, state) ==
    [ sequence |-> sequence,
      canonical_json |-> canonical_serialize(state),
      hash |-> canonical_hash(create_initial_state),
      kernel_version |-> KERNEL_VERSION ]

\* The Snapshot save_snapshot serializes.
MakeSnapshot(sequence, state) ==
    [ sequence |-> sequence,
      canonical_json |-> canonical_serialize(state),
      hash |-> canonical_hash(state),
      kernel_version |-> KERNEL_VERSION ]

\* serde_json::to_string(&snap): the fields, named, in declaration order.
SnapshotToString(snap) ==
    << <<"sequence", snap.sequence>>, <<"canonical_json", snap.canonical_json>>,
       <<"hash", snap.hash>>, <<"kernel_version", snap.kernel_version>> >>

\* The value of the field `key` in a serialized snapshot.
SnapshotField(content, key) ==
    content[CHOOSE i \in 1..Len(content) : content[i][1] = key][2]

\* serde_json::from_str::<Snapshot>(&content)
SnapshotFromStr(content) ==
    [ sequence |-> SnapshotField(content, "sequence"),
      canonical_json |-> SnapshotField(content, "canonical_json"),
      hash |-> SnapshotField(content, "hash"),
      kernel_version |-> SnapshotField(content, "kernel_version") ]

\* save_snapshot: File::create replaces a file of the same name.
save_snapshot(dir, sequence, state) ==
    MapInsert(dir, sequence, SnapshotToString(MakeSnapshot(sequence, state)))

\* load_snapshot: [found, snap]; found = FALSE is Ok(None).
load_snapshot(dir, sequence) ==
    IF sequence \notin DOMAIN dir
    THEN [found |-> FALSE, snap |-> MakeSnapshot(0, create_initial_state)]
    ELSE [found |-> TRUE, snap |-> SnapshotFromStr(dir[sequence])]

\* load_latest_snapshot: the file with the highest sequence in its name.
load_latest_snapshot(dir) ==
    IF DOMAIN dir = {}
    THEN [found |-> FALSE, snap |-> MakeSnapshot(0, create_initial_state)]
    ELSE load_snapshot(dir, CHOOSE s \in DOMAIN dir : \A q \in DOMAIN dir : q <= s)

\* verify_snapshot_hash
verify_snapshot_hash(snap) == Sha256(snap.canonical_json) = snap.hash

(***************************************************************************)
(* replay.rs, session.rs                                                   *)
(***************************************************************************)
\* The loop `for evt in events { engine.apply_event(evt) }`: [ok, err, engine].
\* ApplyNext continues it, r being what apply_event returned for the event
\* before `rest`.
RECURSIVE ApplyAll(_, _), ApplyNext(_, _)
ApplyAll(eng, events) ==
    IF events = <<>> THEN [ok |-> TRUE, err |-> "", engine |-> eng]
    ELSE ApplyNext(engine_apply_event(eng, Head(events)), Tail(events))

ApplyNext(r, rest) ==
    IF ~r.ok THEN [ok |-> FALSE, err |-> r.err, engine |-> r.engine]
    ELSE ApplyAll(r.engine, rest)

\* proto_events.iter().map(proto_to_kernel): [ok, events]; a frame with no
\* event makes proto_to_kernel panic.
DecodeLog(proto_events) ==
    IF \E i \in 1..Len(proto_events) : proto_events[i].event.kind = "None"
    THEN [ok |-> FALSE, events |-> <<>>]
    ELSE [ok |-> TRUE,
          events |-> [i \in 1..Len(proto_events) |-> proto_to_kernel(proto_events[i])]]

\* The end of replay::rebuild_state, r being the engine after the loop.
StateAndHash(r) ==
    [ ok |-> r.ok, err |-> r.err, state |-> r.engine.state,
      hash |-> canonical_hash(r.engine.state) ]

\* replay::rebuild_state: [ok, err, state, hash].
rebuild_state(events) == StateAndHash(ApplyAll(initialize_state, events))

\* The loop of Session::new, `for pe in &proto_events`: each envelope is
\* converted and applied before the next is looked at: [ok, err, engine].
\* ReplayNext continues it, r being what apply_event returned.
RECURSIVE ReplayLog(_, _), ReplayNext(_, _)
ReplayLog(eng, proto_events) ==
    IF proto_events = <<>> THEN [ok |-> TRUE, err |-> "", engine |-> eng]
    ELSE IF Head(proto_events).event.kind = "None"
    THEN [ok |-> FALSE, err |-> "ProtocolError", engine |-> eng]
    ELSE ReplayNext(engine_apply_event(eng, proto_to_kernel(Head(proto_events))),
                    Tail(proto_events))

ReplayNext(r, rest) ==
    IF ~r.ok THEN [ok |-> FALSE, err |-> r.err, engine |-> r.engine]
    ELSE ReplayLog(r.engine, rest)

\* The Session that Session::new builds, r being the outcome of the replay.
SessionOf(last_seq, r) ==
    [ok |-> r.ok, err |-> r.err, engine |-> r.engine, last_sequence |-> last_seq]

\* Session::new after EventStore::open returned st.
SessionNewOpened(st, bytes) ==
    IF ~st.ok
    THEN [ok |-> FALSE, err |-> st.err, engine |-> initialize_state, last_sequence |-> 0]
    ELSE IF st.last_sequence = 0
    THEN [ok |-> TRUE, err |-> "", engine |-> initialize_state, last_sequence |-> 0]
    ELSE SessionOf(st.last_sequence,
                   ReplayLog(initialize_state, load_all_events(bytes).events))

\* Session::new on a directory whose events.log holds `bytes`:
\* [ok, err, engine, last_sequence].
SessionNew(bytes) == SessionNewOpened(EventStoreOpen(bytes), bytes)

(***************************************************************************)
(* The state of one session directory and of the objects opened on it.     *)
(***************************************************************************)
VARIABLES
    engine,             \* Session.engine: the OrgEngine
    event_store,        \* Session.event_store / an EventStore: [last_sequence]
    current_sequence,   \* Session.current_sequence
    snapshot_interval,  \* Session.snapshot_interval
    alive,              \* a Session object exists: Session::new returned Ok, no call panicked
    file,               \* the contents of <base>/<id>/events.log
    snapshots,          \* the files of <base>/<id>/snapshots/
    written,            \* the envelopes append_event has written to the file
    op,                 \* the last call made and what it returned
    replay_events,      \* the event list given to drift::verify_determinism
    replays,            \* the calls of replay::rebuild_state it makes
    session_id,         \* Session.session_id
    peer,               \* a second Session under the same base directory
    threads,            \* the threads sharing the session through a SharedSession
    lock,               \* SharedSession.inner, the Mutex around the session
    kernel              \* an OrgState handed to the kernel's functions, and the last call

replayVars == << replay_events, replays >>
peerVars == << session_id, peer >>
threadVars == << threads, lock >>

vars == << engine, event_store, current_sequence, snapshot_interval, alive,
           file, snapshots, written, op, replayVars, peerVars, threadVars, kernel >>

(***************************************************************************)
(* Inputs.                                                                 *)
(***************************************************************************)
SnapshotIntervals == {0, 2}

Envelope(type, seq, payload, schema) ==
    [ event_type |-> type, sequence |-> seq, timestamp |-> "t",
      logical_time |-> seq, payload |-> payload, schema_version |-> schema ]

NoEvent == Envelope("", 0, [none |-> 0], 0)

InitPayloads ==
    { [ differentiation_threshold |-> 3, differentiation_min_capacity |-> 60000,
        compression_max_combined_responsibilities |-> 5,
        shock_deactivation_threshold |-> 8, shock_debt_base_multiplier |-> 1,
        suppressed_differentiation_debt_increment |-> 1 ],
      [ differentiation_threshold |-> 1, differentiation_min_capacity |-> 0,
        compression_max_combined_responsibilities |-> 2 ],
      [ differentiation_threshold |-> 0,
        suppressed_differentiation_debt_increment |-> -1 ] }

AddRolePayloads ==
    { [ id |-> "a", name |-> "A", purpose |-> "p",
        responsibilities |-> <<"r2", "r1">>,
        required_inputs |-> <<"x">>, produced_outputs |-> <<"x">> ],
      [ id |-> "a", name |-> "A", purpose |-> "p",
        responsibilities |-> <<"r1">>, scale_stage |-> "growth" ],
      [ id |-> "b", name |-> "B", purpose |-> "q",
        responsibilities |-> <<"r3">>, produced_outputs |-> <<"x">> ],
      [ id |-> "b", name |-> "B", purpose |-> "q",
        responsibilities |-> <<"r1">>, required_inputs |-> <<"y">> ],
      [ id |-> "a b", name |-> "A", purpose |-> "p", responsibilities |-> <<"r1">> ],
      [ id |-> "a", name |-> "A", purpose |-> "p" ],
      [ id |-> "b", purpose |-> "q", responsibilities |-> <<"r1">> ] }

RemoveRolePayloads == { [role_id |-> r] : r \in {"a", "b", "c"} }

NewRolesC == << [id |-> "c", name |-> "C", responsibilities |-> <<"r1">>] >>

NewRolesCD ==
    << [ id |-> "c", name |-> "C", purpose |-> "q",
         responsibilities |-> <<"r2", "r1">>,
         required_inputs |-> <<"x">>, produced_outputs |-> <<"x">> ],
       [ id |-> "d", name |-> "N", responsibilities |-> <<"r3">>,
         required_inputs |-> <<>> ] >>

DifferentiatePayloads ==
    { [role_id |-> "a"],
      [role_id |-> "a", new_roles |-> <<>>],
      [role_id |-> "a", new_roles |-> NewRolesC],
      [role_id |-> "a", new_roles |-> NewRolesCD],
      [role_id |-> "a", new_roles |-> << [id |-> "a b", name |-> "C"] >>],
      [role_id |-> "b", new_roles |-> NewRolesC] }

CompressPayloads ==
    { [source_role_id |-> "a", target_role_id |-> "b"],
      [ source_role_id |-> "b", target_role_id |-> "a",
        compressed_name |-> "N", compressed_purpose |-> "q" ],
      [source_role_id |-> "a", target_role_id |-> "a"],
      [source_role_id |-> "a", target_role_id |-> "c"] }

ConstraintPayloads ==
    { [capital_delta |-> -50001],
      [capital_delta |-> -40000, talent_delta |-> -40000],
      [time_delta |-> 40000] }

ShockPayloads ==
    { [target_role_id |-> "a", magnitude |-> 1],
      [target_role_id |-> "a", magnitude |-> 9],
      [target_role_id |-> "b", magnitude |-> -1],
      [target_role_id |-> "c", magnitude |-> 1],
      [target_role_id |-> "a"] }

\* The envelopes a caller offers to an engine whose last sequence is `last`:
\* every payload with the next sequence number and schema version 1, and a
\* few with another sequence number or schema version.
InputEvents(last) ==
    { Envelope("initialize_constants", last + 1, p, 1) : p \in InitPayloads }
    \cup { Envelope("add_role", last + 1, p, 1) : p \in AddRolePayloads }
    \cup { Envelope("remove_role", last + 1, p, 1) : p \in RemoveRolePayloads }
    \cup { Envelope("differentiate_role", last + 1, p, 1) : p \in DifferentiatePayloads }
    \cup { Envelope("compress_roles", last + 1, p, 1) : p \in CompressPayloads }
    \cup { Envelope("apply_constraint_change", last + 1, p, 1) : p \in ConstraintPayloads }
    \cup { Envelope("inject_shock", last + 1, p, 1) : p \in ShockPayloads }
    \cup { Envelope("bogus", last + 1, [none |-> 0], 1) }
    \cup { Envelope(ty, s, [role_id |-> "a"], v) :
             ty \in {"initialize_constants", "remove_role"},
             s \in {last, last + 1, last + 2}, v \in {1, 2} }

Op(kind, event, result, tr, live) ==
    [kind |-> kind, event |-> event, result |-> result, tr |-> tr, live |-> live]

\* A call of one of the kernel's functions on a state: the function, its
\* input, whether it returned, the error or panic if not, the
\* message of the error, the TransitionResult, and the state it was given.
KernelCall(fn, input, ok, err, msg, result, before) ==
    [fn |-> fn, input |-> input, ok |-> ok, err |-> err, msg |-> msg,
     result |-> result, before |-> before]

\* No state has been handed to the kernel's functions.
NoKernel ==
    [ state |-> create_initial_state,
      call |-> KernelCall("none", NoEvent, TRUE, "", "", DefaultResult,
                           create_initial_state) ]

\* One session, or one store, and nothing else: no replay is running, no
\* second session is open and no thread is inside a SharedSession call.
Solo ==
    /\ replay_events = <<>>
    /\ kernel = NoKernel
    /\ replays = <<>>
    /\ session_id = "s1"
    /\ peer = <<>>
    /\ threads = <<>>
    /\ lock = [held |-> FALSE, poisoned |-> FALSE]

(***************************************************************************)
(* Session                                                                 *)
(***************************************************************************)
\* Session::new on an empty directory.
Init ==
    /\ engine = initialize_state
    /\ event_store = [last_sequence |-> 0]
    /\ current_sequence = 0
    /\ snapshot_interval \in SnapshotIntervals
    /\ alive = TRUE
    /\ file = <<>>
    /\ snapshots = EmptyMap
    /\ written = <<>>
    /\ op = Op("none", NoEvent, "ok", DefaultResult, <<>>)
    /\ Solo

\* A session that takes a snapshot after every event.
SnapshotAlways(interval, event) == TRUE

\* Step 3 of Session::apply_event: TRUE when a snapshot is due.
SnapshotDue(interval, event) == interval > 0 /\ event.sequence % interval = 0

\* A session that goes on to persist an event the engine refused.
RejectionIgnored(r) == FALSE

\* Step 1 of Session::apply_event: TRUE when engine.apply_event panicked, which
\* ends the call before the conversion, the append and the snapshot.
EngineRejected(r) == ~r.ok

\* Session::apply_event(event): r is what engine.apply_event returned and a
\* what event_store.append_event returns for the converted event.  A panic
\* unwinds out of the call and takes the Session with it: `engine` is then
\* what the panic left behind, and the directory can only be opened again.
SessionApply(event) ==
    /\ alive
    /\ engine.last_sequence < MaxSeq
    /\ \E r \in {engine_apply_event(engine, event)} :
       \E a \in {append_event(event_store.last_sequence, file, kernel_to_proto(event))} :
           IF EngineRejected(r)
           THEN /\ engine' = r.engine
                /\ alive' = FALSE
                /\ op' = Op("apply", event, r.err, DefaultResult, <<>>)
                /\ UNCHANGED << event_store, current_sequence, file, snapshots, written >>
           ELSE IF ~a.ok
           THEN /\ engine' = r.engine
                /\ alive' = FALSE
                /\ op' = Op("apply", event, IF r.ok THEN "StoreWriteFailed" ELSE r.err,
                            DefaultResult, <<>>)
                /\ UNCHANGED << event_store, current_sequence, file, snapshots, written >>
           ELSE /\ engine' = r.engine
                /\ alive' = alive
                /\ event_store' = [last_sequence |-> a.last_sequence]
                /\ file' = a.bytes
                /\ written' = Append(written, kernel_to_proto(event))
                /\ current_sequence' = event.sequence
                /\ snapshots' = IF SnapshotDue(snapshot_interval, event)
                                THEN save_snapshot(snapshots, event.sequence, r.engine.state)
                                ELSE snapshots
                /\ op' = Op("apply", event, IF r.ok THEN "ok" ELSE r.err, r.result, <<>>)
    /\ UNCHANGED snapshot_interval
    /\ UNCHANGED << replayVars, peerVars, threadVars, kernel >>

\* The session object is dropped and Session::new is called on its directory
\* with some snapshot interval.
SessionReopen ==
    \E r \in {SessionNew(file)} :
    \E interval \in SnapshotIntervals :
        /\ alive' = r.ok
        /\ engine' = IF r.ok THEN r.engine ELSE initialize_state
        /\ event_store' = [last_sequence |-> IF r.ok THEN r.last_sequence ELSE 0]
        /\ current_sequence' = IF r.ok THEN r.last_sequence ELSE 0
        /\ op' = Op("new", NoEvent, IF r.ok THEN "ok" ELSE r.err, DefaultResult,
                    IF alive THEN canonical_hash(engine.state) ELSE <<>>)
        /\ snapshot_interval' = interval
        /\ UNCHANGED << file, snapshots, written, replayVars, peerVars, threadVars, kernel >>

\* Session::replay_full after rebuild_state returned r: the engine is reset
\* and the events are applied to it once more.
ReplayFullReset(eng, r, events) ==
    IF ~r.ok THEN [ok |-> FALSE, err |-> r.err, engine |-> eng]
    ELSE [ok |-> TRUE, err |-> "", engine |-> ApplyAll(initialize_state, events).engine]

\* Session::replay_full after the envelopes were converted to ke.
ReplayFullDecoded(eng, ke) ==
    IF ~ke.ok THEN [ok |-> FALSE, err |-> "ProtocolError", engine |-> eng]
    ELSE ReplayFullReset(eng, rebuild_state(ke.events), ke.events)

\* Session::replay_full after load_all_events returned ld.
ReplayFullLoaded(eng, ld) ==
    IF ~ld.ok THEN [ok |-> FALSE, err |-> ld.err, engine |-> eng]
    ELSE ReplayFullDecoded(eng, DecodeLog(ld.events))

\* The body of Session::replay_full: [ok, err, engine].  rebuild_state runs on
\* an engine of its own; self.engine is replaced only after it has returned.
ReplayFull(eng, bytes) == ReplayFullLoaded(eng, load_all_events(bytes))

\* Session::replay_full
SessionReplayFull ==
    /\ alive
    /\ \E r \in {ReplayFull(engine, file)} :
           /\ engine' = r.engine
           /\ op' = Op("replay_full", NoEvent, IF r.ok THEN "ok" ELSE r.err,
                       DefaultResult, canonical_hash(engine.state))
    /\ UNCHANGED << event_store, current_sequence, snapshot_interval, alive,
                    file, snapshots, written >>
    /\ UNCHANGED << replayVars, peerVars, threadVars, kernel >>

Next ==
    \/ \E e \in InputEvents(engine.last_sequence) : SessionApply(e)
    \/ SessionReopen
    \/ SessionReplayFull

Spec == Init /\ [][Next]_vars

(***************************************************************************)
(* An EventStore used on its own: `alive` says that an EventStore object   *)
(* is open on the file, event_store is that object.                        *)
(***************************************************************************)
\* The oneof values the callers of the store offer.
StoreEvents ==
    { [kind |-> "RemoveRole", role_id |-> "a"],
      [kind |-> "InjectShock", target_role_id |-> "a", magnitude |-> 1],
      [kind |-> "None"] }

\* The envelopes offered to a store whose last sequence is `last`.
StoreInputs(last) ==
    { [sequence |-> s, logical_time |-> t, event |-> e] :
        s \in 0..(last + 2), t \in {0, 7}, e \in StoreEvents }

\* The contents of a log file that received the envelopes of `protos`.
RECURSIVE LogBytes(_)
LogBytes(protos) ==
    IF protos = <<>> THEN <<>>
    ELSE LogBytes(SubSeq(protos, 1, Len(protos) - 1)) \o FrameBytes(protos[Len(protos)])

\* EventStore::open on a directory with no events.log.
InitStore ==
    /\ engine = initialize_state
    /\ event_store = [last_sequence |-> 0]
    /\ current_sequence = 0
    /\ snapshot_interval = 0
    /\ alive = TRUE
    /\ file = <<>>
    /\ snapshots = EmptyMap
    /\ written = <<>>
    /\ op = Op("none", NoEvent, "ok", DefaultResult, <<>>)
    /\ Solo

\* EventStore::append_event(proto)
StoreAppend(proto) ==
    /\ alive
    /\ event_store.last_sequence < MaxSeq
    /\ \E a \in {append_event(event_store.last_sequence, file, proto)} :
           /\ event_store' = [last_sequence |-> a.last_sequence]
           /\ file' = a.bytes
           /\ written' = IF a.ok THEN Append(written, proto) ELSE written
           /\ op' = Op("store_append", proto, IF a.ok THEN "ok" ELSE a.err,
                       DefaultResult, <<>>)
    /\ UNCHANGED << engine, current_sequence, snapshot_interval, alive, snapshots >>
    /\ UNCHANGED << replayVars, peerVars, threadVars, kernel >>

\* The store object is dropped and EventStore::open is called on the directory.
StoreOpen ==
    /\ \E r \in {EventStoreOpen(file)} :
           /\ alive' = r.ok
           /\ event_store' = [last_sequence |-> r.last_sequence]
           /\ op' = Op("store_open", NoEvent, IF r.ok THEN "ok" ELSE r.err,
                       DefaultResult, <<>>)
    /\ UNCHANGED << engine, current_sequence, snapshot_interval, file, snapshots, written >>
    /\ UNCHANGED << replayVars, peerVars, threadVars, kernel >>

\* EventStore::load_all_events on the open store.
StoreLoad ==
    /\ alive
    /\ \E r \in {load_all_events(file)} :
           op' = Op("store_load", NoEvent, IF r.ok THEN "ok" ELSE r.err,
                    DefaultResult, r.events)
    /\ UNCHANGED << engine, event_store, current_sequence, snapshot_interval, alive,
                    file, snapshots, written >>
    /\ UNCHANGED << replayVars, peerVars, threadVars, kernel >>

NextStore ==
    \/ \E p \in StoreInputs(event_store.last_sequence) : StoreAppend(p)
    \/ StoreOpen
    \/ StoreLoad

SpecStore == InitStore /\ [][NextStore]_vars

(***************************************************************************)
(* A log whose tail was lost: events.log holds what some appends wrote,    *)
(* less its last `cut` bytes.  `written` keeps the envelopes appended.     *)
(***************************************************************************)
\* The logs a store wrote: envelopes 1..n, in sequence.
RECURSIVE WrittenLogs(_)
WrittenLogs(n) ==
    IF n = 0 THEN { <<>> }
    ELSE { Append(h, [sequence |-> n, logical_time |-> t, event |-> e]) :
             h \in WrittenLogs(n - 1), t \in {0, 7}, e \in StoreEvents \ {[kind |-> "None"]} }

InitTruncated ==
    /\ engine = initialize_state
    /\ current_sequence = 0
    /\ snapshot_interval = 0
    /\ alive = TRUE
    /\ snapshots = EmptyMap
    /\ \E n \in 1..MaxSeq : \E h \in WrittenLogs(n) : \E cut \in 0..Len(LogBytes(h)) :
           /\ written = h
           /\ event_store = [last_sequence |-> n]
           /\ file = SubSeq(LogBytes(h), 1, Len(LogBytes(h)) - cut)
    /\ op = Op("none", NoEvent, "ok", DefaultResult, <<>>)
    /\ Solo

NextTruncated ==
    \/ StoreOpen
    \/ StoreLoad

SpecTruncated == InitTruncated /\ [][NextTruncated]_vars

(***************************************************************************)
(* drift::verify_determinism: two calls of replay::rebuild_state, one      *)
(* after the other, on one event list.  replays[i] is the i-th call: the   *)
(* engine it works on, the number of events it has applied, how far it got *)
(* and the hash it returned.                                               *)
(***************************************************************************)
\* The lists of n events that an engine accepts one after another.
RECURSIVE ValidEventLists(_)
ValidEventLists(n) ==
    IF n = 0 THEN { <<>> }
    ELSE { l \in { Append(h, e) : h \in ValidEventLists(n - 1), e \in InputEvents(n - 1) } :
             ApplyAll(initialize_state, l).ok }

\* A rebuild_state that keeps its engine from one call to the next.
ReusedEngine(rs) ==
    IF \E i \in 1..Len(rs) : rs[i].phase = "returned"
    THEN rs[CHOOSE i \in 1..Len(rs) : rs[i].phase = "returned"].engine
    ELSE initialize_state

\* The engine a call of rebuild_state starts on, whatever calls came before:
\* OrgEngine::new() and initialize_state().
NewReplayEngine(rs) == initialize_state

NotCalled == [engine |-> initialize_state, pos |-> 0, phase |-> "idle", hash |-> <<>>]

InitDeterminism ==
    /\ kernel = NoKernel
    /\ engine = initialize_state
    /\ event_store = [last_sequence |-> 0]
    /\ current_sequence = 0
    /\ snapshot_interval = 0
    /\ alive = FALSE
    /\ file = <<>>
    /\ snapshots = EmptyMap
    /\ written = <<>>
    /\ op = Op("none", NoEvent, "ok", DefaultResult, <<>>)
    /\ \E n \in 0..MaxSeq : replay_events \in ValidEventLists(n)
    /\ replays = << NotCalled, NotCalled >>
    /\ session_id = "s1"
    /\ peer = <<>>
    /\ threads = <<>>
    /\ lock = [held |-> FALSE, poisoned |-> FALSE]

\* rebuild_state is called: the second call after the first has returned.
ReplayStart(i) ==
    /\ replays[i].phase = "idle"
    /\ i > 1 => replays[i - 1].phase = "returned"
    /\ replays' = [replays EXCEPT ![i] = [@ EXCEPT !.engine = NewReplayEngine(replays),
                                                   !.phase = "running"]]
    /\ UNCHANGED << engine, event_store, current_sequence, snapshot_interval, alive,
                    file, snapshots, written, op, replay_events, peerVars, threadVars, kernel >>

\* One turn of `for evt in events { engine.apply_event(evt) }`.
ReplayStep(i) ==
    /\ replays[i].phase = "running"
    /\ replays[i].pos < Len(replay_events)
    /\ \E r \in {engine_apply_event(replays[i].engine, replay_events[replays[i].pos + 1])} :
           /\ replays' = [replays EXCEPT ![i] =
                            [@ EXCEPT !.engine = r.engine,
                                      !.pos = IF r.ok THEN @ + 1 ELSE @,
                                      !.phase = IF r.ok THEN "running" ELSE "panicked"]]
           /\ op' = Op("rebuild_state", replay_events[replays[i].pos + 1],
                       IF r.ok THEN "ok" ELSE r.err, r.result, <<>>)
    /\ UNCHANGED << engine, event_store, current_sequence, snapshot_interval, alive,
                    file, snapshots, written, replay_events, peerVars, threadVars, kernel >>

\* rebuild_state returns the state and its canonical hash.
ReplayReturn(i) ==
    /\ replays[i].phase = "running"
    /\ replays[i].pos = Len(replay_events)
    /\ replays' = [replays EXCEPT ![i] =
                     [@ EXCEPT !.phase = "returned",
                               !.hash = canonical_hash(replays[i].engine.state)]]
    /\ UNCHANGED << engine, event_store, current_sequence, snapshot_interval, alive,
                    file, snapshots, written, op, replay_events, peerVars, threadVars, kernel >>

\* verify_determinism compares the two hashes.
VerifyCompare ==
    /\ \A i \in 1..Len(replays) : replays[i].phase = "returned"
    /\ op.kind # "verify_determinism"
    /\ op' = Op("verify_determinism", NoEvent,
                IF replays[1].hash # replays[2].hash THEN "DeterminismFailure" ELSE "ok",
                DefaultResult, <<>>)
    /\ UNCHANGED << engine, event_store, current_sequence, snapshot_interval, alive,
                    file, snapshots, written, replayVars, peerVars, threadVars, kernel >>

NextDeterminism ==
    \/ \E i \in 1..Len(replays) : ReplayStart(i)
    \/ \E i \in 1..Len(replays) : ReplayStep(i)
    \/ \E i \in 1..Len(replays) : ReplayReturn(i)
    \/ VerifyCompare

SpecDeterminism == InitDeterminism /\ [][NextDeterminism]_vars

(***************************************************************************)
(* Two sessions under one base directory.  The first is the session of     *)
(* the variables above; `peer` is the second Session object, and its       *)
(* fields file and snapshots are the files of its directory when that is   *)
(* another directory than the first session's.                             *)
(***************************************************************************)
\* The session IDs the callers use.
SessionIds == {"s1", "s2", "./s1"}

\* Path::components() of base_dir.join(session_id) below base_dir: the ID
\* split at '/', "." components dropped as the path resolution drops them.
SessionDir(id) ==
    SelectSeq(CASE id = "s1"   -> <<"s1">>
                [] id = "s2"   -> <<"s2">>
                [] id = "./s1" -> <<".", "s1">>
                [] OTHER       -> <<id>>,
              LAMBDA part : part # ".")

\* The two sessions' paths name the same directory.
SharedDir == SessionDir(peer.session_id) = SessionDir(session_id)

\* events.log and snapshots/ of the peer's directory.
PeerLog == IF SharedDir THEN file ELSE peer.file
PeerSnapshots == IF SharedDir THEN snapshots ELSE peer.snapshots

\* The events offered to the two sessions.
SessionsInputs(last) ==
    { Envelope("initialize_constants", last + 1, [differentiation_threshold |-> 3], 1),
      Envelope("add_role", last + 1,
               [id |-> "a", name |-> "A", purpose |-> "p", responsibilities |-> <<"r1">>], 1),
      Envelope("add_role", last + 1,
               [id |-> "b", name |-> "B", purpose |-> "q", responsibilities |-> <<"r3">>], 1),
      Envelope("remove_role", last + 1, [role_id |-> "a"], 1),
      Envelope("remove_role", last + 2, [role_id |-> "a"], 1) }

\* Session::new twice on an empty base directory, with two different IDs.
InitSessions ==
    /\ engine = initialize_state
    /\ event_store = [last_sequence |-> 0]
    /\ current_sequence = 0
    /\ snapshot_interval \in SnapshotIntervals
    /\ alive = TRUE
    /\ file = <<>>
    /\ snapshots = EmptyMap
    /\ written = <<>>
    /\ op = Op("none", NoEvent, "ok", DefaultResult, <<>>)
    /\ replay_events = <<>>
    /\ kernel = NoKernel
    /\ replays = <<>>
    /\ session_id \in SessionIds
    /\ \E id \in SessionIds \ {session_id} :
           peer = [ session_id |-> id, engine |-> initialize_state,
                    event_store |-> [last_sequence |-> 0], current_sequence |-> 0,
                    snapshot_interval |-> snapshot_interval, alive |-> TRUE,
                    file |-> <<>>, snapshots |-> EmptyMap ]
    /\ threads = <<>>
    /\ lock = [held |-> FALSE, poisoned |-> FALSE]

\* Session::apply_event(event) on the peer.
PeerApply(event) ==
    /\ peer.alive
    /\ peer.engine.last_sequence < MaxSeq
    /\ \E r \in {engine_apply_event(peer.engine, event)} :
       \E a \in {append_event(peer.event_store.last_sequence, PeerLog, kernel_to_proto(event))} :
       \E snaps \in {IF SnapshotDue(peer.snapshot_interval, event)
                     THEN save_snapshot(PeerSnapshots, event.sequence, r.engine.state)
                     ELSE PeerSnapshots} :
           IF EngineRejected(r) \/ ~a.ok
           THEN /\ peer' = [peer EXCEPT !.engine = r.engine, !.alive = FALSE]
                /\ op' = Op("peer_apply", event,
                            IF r.ok THEN "StoreWriteFailed" ELSE r.err, DefaultResult, <<>>)
                /\ UNCHANGED << file, snapshots, written >>
           ELSE /\ peer' = [peer EXCEPT
                              !.engine = r.engine,
                              !.event_store = [last_sequence |-> a.last_sequence],
                              !.current_sequence = event.sequence,
                              !.file = IF SharedDir THEN @ ELSE a.bytes,
                              !.snapshots = IF SharedDir THEN @ ELSE snaps]
                /\ file' = IF SharedDir THEN a.bytes ELSE file
                /\ snapshots' = IF SharedDir THEN snaps ELSE snapshots
                /\ written' = IF SharedDir THEN Append(written, kernel_to_proto(event))
                              ELSE written
                /\ op' = Op("peer_apply", event, "ok", r.result, <<>>)
    /\ UNCHANGED << engine, event_store, current_sequence, snapshot_interval, alive,
                    session_id, replayVars, threadVars, kernel >>

NextSessions ==
    \/ \E e \in SessionsInputs(engine.last_sequence) : SessionApply(e)
    \/ \E e \in SessionsInputs(peer.engine.last_sequence) : PeerApply(e)

SpecSessions == InitSessions /\ [][NextSessions]_vars

(***************************************************************************)
(* A SharedSession used by several threads.  threads[t] is thread t: where *)
(* it stands in SharedSession::apply_event and the event it passed.  The   *)
(* steps of Session::apply_event are taken one by one, so that the threads *)
(* interleave wherever the lock lets them.                                 *)
(***************************************************************************)
ThreadIds == {1, 2}

\* The events a thread passes, built for the sequence number it last saw.
ThreadInputs(last) ==
    { Envelope("initialize_constants", last + 1, [differentiation_threshold |-> 3], 1),
      Envelope("add_role", last + 1,
               [id |-> "a", name |-> "A", purpose |-> "p", responsibilities |-> <<"r1">>], 1),
      Envelope("add_role", last + 1,
               [id |-> "b", name |-> "B", purpose |-> "q", responsibilities |-> <<"r3">>], 1) }

\* SharedSession::new(Session::new(..)) on an empty directory.
InitShared ==
    /\ engine = initialize_state
    /\ event_store = [last_sequence |-> 0]
    /\ current_sequence = 0
    /\ snapshot_interval \in SnapshotIntervals
    /\ alive = TRUE
    /\ file = <<>>
    /\ snapshots = EmptyMap
    /\ written = <<>>
    /\ op = Op("none", NoEvent, "ok", DefaultResult, <<>>)
    /\ replay_events = <<>>
    /\ kernel = NoKernel
    /\ replays = <<>>
    /\ session_id = "s1"
    /\ peer = <<>>
    /\ threads = [t \in ThreadIds |-> [pc |-> "idle", event |-> NoEvent]]
    /\ lock = [held |-> FALSE, poisoned |-> FALSE]

\* A lock() that does not wait for the holder.
LockIgnored(l) == TRUE

\* Mutex::lock returns once no other thread holds the mutex.
LockFree(l) == ~l.held

\* A lock() whose caller takes the guard out of a PoisonError.
PoisonIgnored(l) == FALSE

\* Mutex::lock returns Err(PoisonError) once a holder has panicked, and
\* .expect("Session lock poisoned") panics on it.
LockPoisoned(l) == l.poisoned

\* A panic inside the critical section: the guard is dropped while the
\* thread unwinds, which poisons the mutex and releases it.
Unwind(t, err) ==
    /\ threads' = [threads EXCEPT ![t].pc = "panicked"]
    /\ lock' = [held |-> FALSE, poisoned |-> TRUE]
    /\ alive' = FALSE
    /\ op' = Op("shared_apply", threads[t].event, err, DefaultResult, <<>>)

\* Thread t calls SharedSession::apply_event(event).
ThreadCall(t, event) ==
    /\ threads[t].pc = "idle"
    /\ engine.last_sequence < MaxSeq
    /\ threads' = [threads EXCEPT ![t] = [pc |-> "waiting", event |-> event]]
    /\ UNCHANGED << engine, event_store, current_sequence, snapshot_interval, alive,
                    file, snapshots, written, op, replayVars, peerVars, lock, kernel >>

\* self.inner.lock().expect("Session lock poisoned")
ThreadLock(t) ==
    /\ threads[t].pc = "waiting"
    /\ LockFree(lock)
    /\ IF LockPoisoned(lock)
       THEN /\ threads' = [threads EXCEPT ![t].pc = "panicked"]
            /\ op' = Op("shared_apply", threads[t].event, "LockPoisoned", DefaultResult, <<>>)
            /\ UNCHANGED lock
       ELSE /\ threads' = [threads EXCEPT ![t].pc = "locked"]
            /\ lock' = [lock EXCEPT !.held = TRUE]
            /\ UNCHANGED op
    /\ UNCHANGED << engine, event_store, current_sequence, snapshot_interval, alive,
                    file, snapshots, written, replayVars, peerVars, kernel >>

\* Step 1 of Session::apply_event, by the thread inside the call.
ThreadEngineApply(t) ==
    /\ threads[t].pc = "locked"
    /\ \E r \in {engine_apply_event(engine, threads[t].event)} :
           /\ engine' = r.engine
           /\ IF EngineRejected(r)
              THEN Unwind(t, r.err)
              ELSE /\ threads' = [threads EXCEPT ![t].pc = "applied"]
                   /\ UNCHANGED << alive, lock, op >>
    /\ UNCHANGED << event_store, current_sequence, snapshot_interval,
                    file, snapshots, written, replayVars, peerVars, kernel >>

\* Step 2 of Session::apply_event: convert, append, set current_sequence.
ThreadAppend(t) ==
    /\ threads[t].pc = "applied"
    /\ \E a \in {append_event(event_store.last_sequence, file,
                              kernel_to_proto(threads[t].event))} :
           IF ~a.ok
           THEN /\ Unwind(t, "StoreWriteFailed")
                /\ UNCHANGED << event_store, file, written, current_sequence >>
           ELSE /\ event_store' = [last_sequence |-> a.last_sequence]
                /\ file' = a.bytes
                /\ written' = Append(written, kernel_to_proto(threads[t].event))
                /\ current_sequence' = threads[t].event.sequence
                /\ threads' = [threads EXCEPT ![t].pc = "persisted"]
                /\ UNCHANGED << alive, lock, op >>
    /\ UNCHANGED << engine, snapshot_interval, snapshots, replayVars, peerVars, kernel >>

\* Step 3 of Session::apply_event and the return, which drops the guard.
ThreadReturn(t) ==
    /\ threads[t].pc = "persisted"
    /\ snapshots' = IF SnapshotDue(snapshot_interval, threads[t].event)
                    THEN save_snapshot(snapshots, threads[t].event.sequence, engine.state)
                    ELSE snapshots
    /\ threads' = [threads EXCEPT ![t].pc = "idle"]
    /\ lock' = [lock EXCEPT !.held = FALSE]
    /\ op' = Op("shared_apply", threads[t].event, "ok", DefaultResult, <<>>)
    /\ UNCHANGED << engine, event_store, current_sequence, snapshot_interval, alive,
                    file, written, replayVars, peerVars, kernel >>

NextShared ==
    \/ \E t \in ThreadIds : \E e \in ThreadInputs(engine.last_sequence) : ThreadCall(t, e)
    \/ \E t \in ThreadIds : ThreadLock(t)
    \/ \E t \in ThreadIds : ThreadEngineApply(t)
    \/ \E t \in ThreadIds : ThreadAppend(t)
    \/ \E t \in ThreadIds : ThreadReturn(t)

SpecShared == InitShared /\ [][NextShared]_vars

(***************************************************************************)
(* The SharedSession with its three methods, used by threads whose callers *)
(* catch a panic and call again.                                           *)
(***************************************************************************)
\* The events the threads pass here: some the kernel rejects in every
\* state, some it accepts in the right state.
PoisonInputs(last) ==
    ThreadInputs(last)
    \cup { Envelope("remove_role", last + 1, [role_id |-> "c"], 1) }

\* Thread t calls SharedSession::current_hash or current_sequence.
ThreadReadCall(t, method) ==
    /\ threads[t].pc = "idle"
    /\ method \in {"current_hash", "current_sequence"}
    /\ threads' = [threads EXCEPT ![t] = [pc |-> method, event |-> NoEvent]]
    /\ UNCHANGED << engine, event_store, current_sequence, snapshot_interval, alive,
                    file, snapshots, written, op, replayVars, peerVars, lock, kernel >>

\* The body of current_hash / current_sequence: lock().expect(..), read,
\* drop the guard.
ThreadRead(t) ==
    /\ threads[t].pc \in {"current_hash", "current_sequence"}
    /\ LockFree(lock)
    /\ IF LockPoisoned(lock)
       THEN /\ threads' = [threads EXCEPT ![t].pc = "panicked"]
            /\ op' = Op(threads[t].pc, NoEvent, "LockPoisoned", DefaultResult, <<>>)
       ELSE /\ threads' = [threads EXCEPT ![t].pc = "idle"]
            /\ op' = Op(threads[t].pc, NoEvent, "ok", DefaultResult,
                        IF threads[t].pc = "current_hash"
                        THEN canonical_hash(engine.state)
                        ELSE <<current_sequence>>)
    /\ UNCHANGED << engine, event_store, current_sequence, snapshot_interval, alive,
                    file, snapshots, written, replayVars, peerVars, lock, kernel >>

\* The caller of thread t caught the panic; the thread can call again.
ThreadResume(t) ==
    /\ threads[t].pc = "panicked"
    /\ threads' = [threads EXCEPT ![t] = [pc |-> "idle", event |-> NoEvent]]
    /\ UNCHANGED << engine, event_store, current_sequence, snapshot_interval, alive,
                    file, snapshots, written, op, replayVars, peerVars, lock, kernel >>

NextPoison ==
    \/ \E t \in ThreadIds : \E e \in PoisonInputs(engine.last_sequence) : ThreadCall(t, e)
    \/ \E t \in ThreadIds : ThreadLock(t)
    \/ \E t \in ThreadIds : ThreadEngineApply(t)
    \/ \E t \in ThreadIds : ThreadAppend(t)
    \/ \E t \in ThreadIds : ThreadReturn(t)
    \/ \E t \in ThreadIds : \E m \in {"current_hash", "current_sequence"} : ThreadReadCall(t, m)
    \/ \E t \in ThreadIds : ThreadRead(t)
    \/ \E t \in ThreadIds : ThreadResume(t)

SpecPoison == InitShared /\ [][NextPoison]_vars

(***************************************************************************)
(* A session whose snapshot interval may be 1, so that several snapshots   *)
(* come to stand in its directory.                                         *)
(***************************************************************************)
InitSnapshots ==
    /\ engine = initialize_state
    /\ event_store = [last_sequence |-> 0]
    /\ current_sequence = 0
    /\ snapshot_interval \in SnapshotIntervals \cup {1}
    /\ alive = TRUE
    /\ file = <<>>
    /\ snapshots = EmptyMap
    /\ written = <<>>
    /\ op = Op("none", NoEvent, "ok", DefaultResult, <<>>)
    /\ Solo

NextSnapshots ==
    \/ \E e \in SessionsInputs(engine.last_sequence) : SessionApply(e)
    \/ SessionReopen

SpecSnapshots == InitSnapshots /\ [][NextSnapshots]_vars

(***************************************************************************)
(* A session that is offered differentiations of a role over the threshold *)
(* at a capacity index below and at differentiation_min_capacity, with a   *)
(* small and with the largest debt increment.                              *)
(***************************************************************************)
SuppressionInputs(last) ==
    { Envelope("initialize_constants", last + 1, p, 1) :
        p \in { [ differentiation_threshold |-> 1,
                  suppressed_differentiation_debt_increment |-> 2 ],
                [ differentiation_threshold |-> 1,
                  suppressed_differentiation_debt_increment |-> I64_MAX ] } }
    \cup { Envelope("add_role", last + 1, p, 1) :
             p \in { [ id |-> "a", name |-> "A", purpose |-> "p",
                       responsibilities |-> <<"r2", "r1">>,
                       required_inputs |-> <<"x">>, produced_outputs |-> <<"x">> ],
                     [ id |-> "b", name |-> "B", purpose |-> "q",
                       responsibilities |-> <<"r1">> ] } }
    \cup { Envelope("apply_constraint_change", last + 1, p, 1) :
             p \in { [time_delta |-> 40000], [capital_delta |-> -40000] } }
    \cup { Envelope("differentiate_role", last + 1, p, 1) : p \in DifferentiatePayloads }

NextSuppression ==
    \/ \E e \in SuppressionInputs(engine.last_sequence) : SessionApply(e)
    \/ SessionReopen

SpecSuppression == Init /\ [][NextSuppression]_vars

(***************************************************************************)
(* snapshot_codec.rs.  A JSON text is malformed, or it is the object tree  *)
(* it parses to: an object is a function from its keys.                    *)
(***************************************************************************)
Malformed == [json |-> "malformed"]

\* serde_json::to_string(state): the derived Serialize writes every field
\* of every struct under its name.
encode_snapshot(state) == [json |-> "object", value |-> state]

OrgStateFields == { "roles", "dependencies", "constraint_vector", "constants",
                    "scale_stage", "structural_debt", "event_history" }
RoleFields == { "id", "name", "purpose", "responsibilities", "required_inputs",
                "produced_outputs", "scale_stage", "active" }
DependencyEdgeFields == {"from_role_id", "to_role_id", "dependency_type", "critical"}
ConstraintVectorFields == {"capital", "talent", "time", "political_cost"}
DomainConstantsFields == DOMAIN DefaultConstants

\* The derived Deserialize with deny_unknown_fields: every struct has
\* exactly its fields.
WellFormed(v) ==
    /\ DOMAIN v = OrgStateFields
    /\ \A r \in DOMAIN v.roles : DOMAIN v.roles[r] = RoleFields
    /\ \A i \in 1..Len(v.dependencies) : DOMAIN v.dependencies[i] = DependencyEdgeFields
    /\ DOMAIN v.constraint_vector = ConstraintVectorFields
    /\ DOMAIN v.constants = DomainConstantsFields

\* decode_snapshot: [ok, err, msg, state].
decode_snapshot(doc) ==
    IF doc.json # "object"
    THEN [ok |-> FALSE, err |-> "DeserializationError", msg |-> "syntax",
          state |-> create_initial_state]
    ELSE IF ~WellFormed(doc.value)
    THEN [ok |-> FALSE, err |-> "DeserializationError", msg |-> "field",
          state |-> create_initial_state]
    ELSE [ok |-> TRUE, err |-> "", msg |-> "", state |-> doc.value]

\* restore_snapshot: [ok, err, msg, state]; msg is the tag of the invariant
\* an InvariantViolation names.
restore_snapshot(doc) ==
    IF ~decode_snapshot(doc).ok THEN decode_snapshot(doc)
    ELSE IF try_validate_invariants(decode_snapshot(doc).state) # "ok"
    THEN [ok |-> FALSE, err |-> "InvariantViolation",
          msg |-> try_validate_invariants(decode_snapshot(doc).state),
          state |-> create_initial_state]
    ELSE decode_snapshot(doc)

(***************************************************************************)
(* The kernel's functions on a state of the caller's making: OrgState and  *)
(* its parts are public structs, and transitions::apply_event,             *)
(* validate_invariants, try_validate_invariants and restore_snapshot take  *)
(* any of them.  Each behaviour hands one state to one call.               *)
(***************************************************************************)
MaxDeps == 2

KernelConstants ==
    [ differentiation_threshold |-> 1,
      differentiation_min_capacity |-> 50000,
      compression_max_combined_responsibilities |-> 3,
      shock_deactivation_threshold |-> 8,
      shock_debt_base_multiplier |-> 1,
      suppressed_differentiation_debt_increment |-> 1 ]

MakeRole(id, responsibilities, required_inputs, produced_outputs, active) ==
    [ id |-> id, name |-> "N", purpose |-> "p",
      responsibilities |-> responsibilities,
      required_inputs |-> required_inputs,
      produced_outputs |-> produced_outputs,
      scale_stage |-> "seed", active |-> active ]

RECURSIVE RoleMap(_)
RoleMap(roles) ==
    IF roles = <<>> THEN EmptyMap
    ELSE MapInsert(RoleMap(Tail(roles)), Head(roles).id, Head(roles))

\* Role sets that pass the invariants when no edge is added.
SoundRoles ==
    { RoleMap(<< MakeRole("a", <<"r1", "r2">>, <<"x">>, <<"x">>, TRUE),
                 MakeRole("b", <<"r3">>, <<>>, <<>>, TRUE) >>),
      RoleMap(<< MakeRole("a", <<"r1", "r2">>, <<"x">>, <<"x">>, TRUE),
                 MakeRole("b", <<"r3">>, <<>>, <<>>, TRUE),
                 MakeRole("c", <<"r1">>, <<"y">>, <<"x">>, TRUE) >>),
      RoleMap(<< MakeRole("a", <<"r1", "r2">>, <<"x">>, <<"x">>, TRUE),
                 MakeRole("b", <<"r3", "r4">>, <<"y">>, <<>>, FALSE) >>) }

\* Role sets that break one invariant or several.
BrokenRoles ==
    { RoleMap(<< MakeRole("a b", <<"r1">>, <<>>, <<>>, TRUE) >>),
      RoleMap(<< MakeRole("", <<"r1">>, <<>>, <<>>, TRUE) >>),
      RoleMap(<< MakeRole("a", <<"r1">>, <<>>, <<"z">>, TRUE) >>),
      RoleMap(<< MakeRole("a", <<"r1">>, <<>>, <<>>, FALSE) >>),
      RoleMap(<< MakeRole("a", <<>>, <<>>, <<>>, TRUE) >>),
      RoleMap(<< MakeRole("a b", <<>>, <<>>, <<"z">>, FALSE) >>),
      RoleMap(<< MakeRole("a", <<>>, <<>>, <<"z">>, FALSE),
                 MakeRole("b", <<"r1">>, <<>>, <<>>, FALSE) >>) }

\* Role maps in which a role stands under a key that is not its id.
MiskeyedRoles ==
    { MapInsert(EmptyMap, "a", MakeRole("a b", <<"r1">>, <<>>, <<>>, TRUE)),
      MapInsert(MapInsert(EmptyMap, "a", MakeRole("b", <<"r1">>, <<>>, <<>>, TRUE)),
                "b", MakeRole("b", <<"r3">>, <<>>, <<>>, TRUE)) }

Edge(from, to, type, critical) ==
    [ from_role_id |-> from, to_role_id |-> to,
      dependency_type |-> type, critical |-> critical ]

KernelEdges ==
    { Edge(ft[1], ft[2], "operational", c) :
        ft \in { <<"a", "b">>, <<"b", "a">>, <<"a", "c">>, <<"c", "a">>,
                 <<"b", "c">>, <<"a", "a">> },
        c \in BOOLEAN }
    \cup { Edge("a", "b", "governance", c) : c \in BOOLEAN }

\* The edge lists of at most n edges.
RECURSIVE EdgeLists(_)
EdgeLists(n) ==
    IF n = 0 THEN { <<>> }
    ELSE EdgeLists(n - 1)
         \cup { Append(l, e) : l \in { x \in EdgeLists(n - 1) : Len(x) = n - 1 },
                               e \in KernelEdges }

\* Edge lists that join IDs which are not roles of a state whose only role
\* is b.
OutsideEdgeLists ==
    { << Edge("a", "a", "operational", TRUE) >>,
      << Edge("a", "c", "operational", TRUE), Edge("c", "a", "operational", TRUE) >>,
      << Edge("a", "c", "operational", TRUE), Edge("c", "a", "operational", FALSE) >>,
      << Edge("b", "a", "operational", TRUE), Edge("a", "b", "operational", TRUE) >> }

KernelState(roles, deps) ==
    [ create_initial_state EXCEPT
        !.roles = roles, !.dependencies = deps, !.constants = KernelConstants ]

KernelStates ==
    { KernelState(roles, deps) : roles \in SoundRoles, deps \in EdgeLists(MaxDeps) }
    \cup { KernelState(roles, deps) : roles \in BrokenRoles \cup MiskeyedRoles,
                                      deps \in { <<>>, << Edge("a", "c", "operational", TRUE) >> } }
    \cup { KernelState(RoleMap(<< MakeRole("b", <<"r3">>, <<>>, <<>>, TRUE) >>), deps) :
             deps \in OutsideEdgeLists }

\* Other new_roles arrays of a differentiate_role payload: empty, with an ID
\* outside the format, with one ID twice, with the ID of another role of the
\* state, and with the ID of the differentiated role.
OtherNewRoles ==
    { <<>>,
      << [id |-> "a b", name |-> "C", responsibilities |-> <<"r1">>] >>,
      << [id |-> "c", name |-> "C", responsibilities |-> <<"r1">>],
         [id |-> "c", name |-> "D", responsibilities |-> <<"r5">>] >>,
      << [id |-> "b", name |-> "C", responsibilities |-> <<"r1">>],
         [id |-> "d", name |-> "D", responsibilities |-> <<"r2">>] >>,
      << [id |-> "a", name |-> "C", responsibilities |-> <<"r1">>] >> }

KernelEvents ==
    { Envelope("remove_role", 1, [role_id |-> r], 1) : r \in {"a", "c"} }
    \cup { Envelope("differentiate_role", 1, [role_id |-> "a", new_roles |-> n], 1) :
             n \in {NewRolesC, NewRolesCD} \cup OtherNewRoles }
    \cup { Envelope("differentiate_role", 1, [role_id |-> "a"], 1),
           Envelope("differentiate_role", 1, [role_id |-> "b", new_roles |-> NewRolesC], 1) }
    \cup { Envelope("compress_roles", 1, p, 1) :
             p \in { [source_role_id |-> "a", target_role_id |-> "b"],
                     [ source_role_id |-> "b", target_role_id |-> "a",
                       compressed_name |-> "N", compressed_purpose |-> "q" ],
                     [source_role_id |-> "c", target_role_id |-> "a"],
                     [source_role_id |-> "b", target_role_id |-> "c"],
                     [source_role_id |-> "a", target_role_id |-> "a"] } }
    \cup { Envelope("inject_shock", 1, [target_role_id |-> t, magnitude |-> m], 1) :
             t \in {"a", "b"}, m \in {2, 9} }
    \cup { Envelope("inject_shock", 1, [target_role_id |-> "a", magnitude |-> -1], 1) }

\* The snapshot texts offered to restore_snapshot for a state: its encoding,
\* and texts that are malformed, lack a field or carry an unknown one.
SnapshotTexts(state) ==
    { encode_snapshot(state), Malformed,
      [ json |-> "object",
        value |-> [k \in OrgStateFields \ {"constants"} |-> state[k]] ],
      [ json |-> "object",
        value |-> [k \in OrgStateFields \cup {"extra"} |->
                     IF k = "extra" THEN 0 ELSE state[k]] ],
      [ json |-> "object",
        value |-> [state EXCEPT !.roles =
                     [r \in DOMAIN state.roles |->
                        [k \in RoleFields \ {"active"} |-> state.roles[r][k]]]] ],
      [ json |-> "object",
        value |-> [state EXCEPT !.dependencies =
                     [i \in 1..Len(state.dependencies) |->
                        [k \in DependencyEdgeFields \cup {"weight"} |->
                           IF k = "weight" THEN 0 ELSE state.dependencies[i][k]]]] ] }

InitKernel ==
    /\ engine = initialize_state
    /\ event_store = [last_sequence |-> 0]
    /\ current_sequence = 0
    /\ snapshot_interval = 0
    /\ alive = FALSE
    /\ file = <<>>
    /\ snapshots = EmptyMap
    /\ written = <<>>
    /\ op = Op("none", NoEvent, "ok", DefaultResult, <<>>)
    /\ replay_events = <<>>
    /\ replays = <<>>
    /\ session_id = "s1"
    /\ peer = <<>>
    /\ threads = <<>>
    /\ lock = [held |-> FALSE, poisoned |-> FALSE]
    /\ \E s \in KernelStates : kernel = [NoKernel EXCEPT !.state = s, !.call.before = s]

KernelFrame ==
    UNCHANGED << engine, event_store, current_sequence, snapshot_interval, alive,
                 file, snapshots, written, op, replayVars, peerVars, threadVars >>

\* transitions::apply_event(&state, &event): the caller keeps its state when
\* the call panics and takes the returned one otherwise.
KernelApply(event) ==
    /\ kernel.call.fn = "none"
    /\ \E t \in {transition_apply(kernel.state, event)} :
           kernel' = [ state |-> IF t.ok THEN t.state ELSE kernel.state,
                       call |-> KernelCall("apply_event", event, t.ok, t.err, "",
                                           t.result, kernel.state) ]
    /\ KernelFrame

\* validate_invariants(&state) and try_validate_invariants(&state) on the
\* same state: err is the tag of the panic, msg the tag of the Err.
KernelValidate ==
    /\ kernel.call.fn = "none"
    /\ kernel' = [kernel EXCEPT !.call =
                    KernelCall("validate_invariants", NoEvent,
                               validate_invariants(kernel.state) = "ok",
                               validate_invariants(kernel.state),
                               try_validate_invariants(kernel.state),
                               DefaultResult, kernel.state)]
    /\ KernelFrame

\* restore_snapshot(text): the caller takes the state an Ok carries.
KernelRestore(text) ==
    /\ kernel.call.fn = "none"
    /\ \E r \in {restore_snapshot(text)} :
           kernel' = [ state |-> IF r.ok THEN r.state ELSE kernel.state,
                       call |-> KernelCall("restore_snapshot", text, r.ok, r.err, r.msg,
                                           DefaultResult, kernel.state) ]
    /\ KernelFrame

\* graph::detect_critical_cycles(&state): msg is the list of cycles returned.
KernelDetect ==
    /\ kernel.call.fn = "none"
    /\ kernel' = [kernel EXCEPT !.call =
                    KernelCall("detect_critical_cycles", NoEvent, TRUE, "",
                               detect_critical_cycles(kernel.state),
                               DefaultResult, kernel.state)]
    /\ KernelFrame

NextKernel ==
    \/ \E e \in KernelEvents : KernelApply(e)
    \/ KernelValidate
    \/ KernelDetect
    \/ \E text \in SnapshotTexts(kernel.state) : KernelRestore(text)

SpecKernel == InitKernel /\ [][NextKernel]_vars

(***************************************************************************)
(* replay::rebuild_state on an event list and on the same list with other  *)
(* timestamps, as the list has after a passage through the wire codec,     *)
(* which stores no timestamp and decodes to an empty one.                   *)
(***************************************************************************)
\* The event lists offered: an accepted list, or one whose last event is
\* any input, accepted or not.
ReplayLists ==
    UNION { ValidEventLists(n) : n \in 0..MaxSeq }
    \cup UNION { { Append(h, e) : h \in ValidEventLists(n - 1), e \in InputEvents(n - 1) } :
                 n \in 1..MaxSeq }

\* The list with the timestamp of every event whose position is in `where`
\* replaced by stamp.
Retimed(events, where, stamp) ==
    [i \in 1..Len(events) |->
        IF i \in where THEN [events[i] EXCEPT !.timestamp = stamp] ELSE events[i]]

\* What a call of rebuild_state comes to, r being the engine after the
\* loop: the engine, the number of events applied, whether it returned, and
\* the hash it returned.
OutcomeOf(r) ==
    [ engine |-> r.engine,
      pos |-> r.engine.last_sequence,
      phase |-> IF r.ok THEN "returned" ELSE "panicked",
      hash |-> IF r.ok THEN StateAndHash(r).hash ELSE <<>> ]

ReplayOutcome(events) == OutcomeOf(ApplyAll(initialize_state, events))

InitTimestamps ==
    /\ engine = initialize_state
    /\ event_store = [last_sequence |-> 0]
    /\ current_sequence = 0
    /\ snapshot_interval = 0
    /\ alive = FALSE
    /\ file = <<>>
    /\ snapshots = EmptyMap
    /\ written = <<>>
    /\ op = Op("none", NoEvent, "ok", DefaultResult, <<>>)
    /\ replay_events \in ReplayLists
    /\ replays = << NotCalled, NotCalled >>
    /\ session_id = "s1"
    /\ peer = <<>>
    /\ threads = <<>>
    /\ lock = [held |-> FALSE, poisoned |-> FALSE]
    /\ kernel = NoKernel

\* rebuild_state on the list and on a retimed copy of it.
ReplayRetimed(where, stamp) ==
    /\ op.kind = "none"
    /\ replays' = << ReplayOutcome(replay_events),
                     ReplayOutcome(Retimed(replay_events, where, stamp)) >>
    /\ op' = Op("retimed", NoEvent, "ok", DefaultResult, <<where, stamp>>)
    /\ UNCHANGED << engine, event_store, current_sequence, snapshot_interval, alive,
                    file, snapshots, written, replay_events, peerVars, threadVars, kernel >>

NextTimestamps ==
    \E stamp \in {"", "u"} :
        \E where \in { 1..Len(replay_events), {Len(replay_events)}, {1} } :
            ReplayRetimed(where, stamp)

SpecTimestamps == InitTimestamps /\ [][NextTimestamps]_vars

(***************************************************************************)
(* A Session whose event-store writes can fail, held by a host that        *)
(* catches the unwind of a panic and goes on calling the same object       *)
(* (`alive` stays TRUE).  The file system decides how far a write gets.    *)
(***************************************************************************)
\* Where the file operations of append_event stop: nowhere ("ok"), at the
\* open, in the middle of the buffered write, or at sync_all.
IoOutcomes == {"ok", "open", "write", "sync"}

\* What the file holds after append_event stopped at `io`.
BytesAfter(bytes, frame, io) ==
    CASE io = "open"  -> bytes
      [] io = "write" -> WriteAtEnd(bytes, SubSeq(frame, 1, Len(frame) - 1))
      [] OTHER        -> WriteAtEnd(bytes, frame)

\* EventStore::append_event with a file system that stops at `io`: every `?`
\* returns before last_sequence is assigned.
append_event_io(last_sequence, bytes, proto, io) ==
    IF AppendSequenceMismatch(last_sequence, proto)
    THEN [ok |-> FALSE, err |-> "SequenceViolation",
          last_sequence |-> last_sequence, bytes |-> bytes]
    ELSE IF io # "ok"
    THEN [ok |-> FALSE, err |-> "Io",
          last_sequence |-> last_sequence,
          bytes |-> BytesAfter(bytes, FrameBytes(proto), io)]
    ELSE [ok |-> TRUE, err |-> "",
          last_sequence |-> proto.sequence, bytes |-> WriteAtEnd(bytes, FrameBytes(proto))]

\* The events offered: the next one for the engine and the next one for the
\* store, and the ones after them.
WriteFailureInputs ==
    SessionsInputs(engine.last_sequence) \cup SessionsInputs(event_store.last_sequence)

\* Session::apply_event(event) on that session: the engine's panic and the
\* panic of `.expect("Event store write failed")` both leave the fields as
\* they were when the panic started.
FallibleApply(event, io) ==
    /\ alive
    /\ engine.last_sequence < MaxSeq
    /\ \E r \in {engine_apply_event(engine, event)} :
       \E a \in {append_event_io(event_store.last_sequence, file,
                                 kernel_to_proto(event), io)} :
           IF EngineRejected(r)
           THEN /\ engine' = r.engine
                /\ op' = Op("apply", event, r.err, DefaultResult, <<io>>)
                /\ UNCHANGED << event_store, current_sequence, file, snapshots, written >>
           ELSE IF ~a.ok
           THEN /\ engine' = r.engine
                /\ file' = a.bytes
                /\ op' = Op("apply", event, "StoreWriteFailed", DefaultResult, <<io>>)
                /\ UNCHANGED << event_store, current_sequence, snapshots, written >>
           ELSE /\ engine' = r.engine
                /\ event_store' = [last_sequence |-> a.last_sequence]
                /\ file' = a.bytes
                /\ written' = Append(written, kernel_to_proto(event))
                /\ current_sequence' = event.sequence
                /\ snapshots' = IF SnapshotDue(snapshot_interval, event)
                                THEN save_snapshot(snapshots, event.sequence, r.engine.state)
                                ELSE snapshots
                /\ op' = Op("apply", event, "ok", r.result, <<io>>)
    /\ UNCHANGED << snapshot_interval, alive >>
    /\ UNCHANGED << replayVars, peerVars, threadVars, kernel >>

NextWriteFailure ==
    \E e \in WriteFailureInputs : \E io \in IoOutcomes : FallibleApply(e, io)

SpecWriteFailure == Init /\ [][NextWriteFailure]_vars

(***************************************************************************)
(* One session, sole owner of its directory, that is fed a few events,     *)
(* dropped and opened again, and replayed in full.                         *)
(***************************************************************************)
NextAgreement ==
    \/ \E e \in SessionsInputs(engine.last_sequence) : SessionApply(e)
    \/ SessionReopen
    \/ SessionReplayFull

SpecAgreement == Init /\ [][NextAgreement]_vars

(***************************************************************************)
(* An OrgEngine used on its own, by a caller that goes on after a panic,   *)
(* with constants and events at the ends of the i64 range.                 *)
(***************************************************************************)
\* The payloads of initialize_constants.
EngineConstants ==
    { [ differentiation_threshold |-> 1, differentiation_min_capacity |-> 50000 ],
      [ differentiation_threshold |-> 1, differentiation_min_capacity |-> I64_MAX,
        shock_debt_base_multiplier |-> 2,
        suppressed_differentiation_debt_increment |-> I64_MAX ] }

\* The events offered to an engine whose last sequence is `last`.
EngineInputs(last) ==
    { Envelope("initialize_constants", last + 1, p, 1) : p \in EngineConstants }
    \cup { Envelope("add_role", last + 1, p, 1) :
             p \in { [ id |-> "a", name |-> "A", purpose |-> "p",
                       responsibilities |-> <<"r1", "r2">> ],
                     [ id |-> "b", name |-> "B", purpose |-> "q",
                       responsibilities |-> <<"r3">> ] } }
    \cup { Envelope("apply_constraint_change", last + 1, p, 1) :
             p \in { [capital_delta |-> -50001],
                     [capital_delta |-> -50000, talent_delta |-> 1],
                     [ capital_delta |-> I64_MAX - 50000,
                       talent_delta |-> I64_MAX - 50000 ],
                     [time_delta |-> I64_MAX],
                     [political_cost_delta |-> -50001, capital_delta |-> I64_MAX] } }
    \cup { Envelope("differentiate_role", last + 1, p, 1) :
             p \in { [role_id |-> "a", new_roles |-> NewRolesCD], [role_id |-> "a"] } }
    \cup { Envelope("inject_shock", last + 1, [target_role_id |-> "a", magnitude |-> m], 1) :
             m \in {-1, 0, 1, 9, I64_MAX} }
    \cup { Envelope("remove_role", last + 1, [role_id |-> "a"], 1),
           Envelope("compress_roles", last + 1,
                    [source_role_id |-> "a", target_role_id |-> "b"], 1) }

\* engine.apply_event(event) by a caller that catches the panic: the engine
\* is what the call leaves behind.
EngineApply(event) ==
    /\ engine.last_sequence < MaxSeq + 1
    /\ \E r \in {engine_apply_event(engine, event)} :
           /\ engine' = r.engine
           /\ op' = Op("apply", event, IF r.ok THEN "ok" ELSE r.err, r.result, <<>>)
    /\ UNCHANGED << event_store, current_sequence, snapshot_interval, alive,
                    file, snapshots, written, replayVars, peerVars, threadVars, kernel >>

NextEngine == \E e \in EngineInputs(engine.last_sequence) : EngineApply(e)

SpecEngine == Init /\ [][NextEngine]_vars

(***************************************************************************)
(* Properties.  A step of Session::apply_event is a step whose new `op` is *)
(* an "apply"; op'.event is the event offered and op'.result the outcome.  *)
(***************************************************************************)
\* I1: every dependency edge joins two roles of the state.
DependencyRefsHold(state) ==
    \A i \in 1..Len(state.dependencies) :
        {state.dependencies[i].from_role_id, state.dependencies[i].to_role_id}
            \subseteq DOMAIN state.roles

\* I2: whatever a role produces, some role requires.
NoOrphanedOutput(state) ==
    \A r \in DOMAIN state.roles :
        \A i \in 1..Len(state.roles[r].produced_outputs) :
            \E q \in DOMAIN state.roles :
                \E j \in 1..Len(state.roles[q].required_inputs) :
                    state.roles[q].required_inputs[j] = state.roles[r].produced_outputs[i]

\* I3: no two roles of the state carry the same ID.
UniqueRoleIds(state) ==
    \A a, b \in DOMAIN state.roles : state.roles[a].id = state.roles[b].id => a = b

\* I4: a state that has roles has an active one.
SomeRoleActive(state) ==
    DOMAIN state.roles # {} => \E r \in DOMAIN state.roles : state.roles[r].active

\* I5: every role has a responsibility.
NoEmptyResponsibilities(state) ==
    \A r \in DOMAIN state.roles : Len(state.roles[r].responsibilities) > 0

\* I6: no set of roles in which every member has a critical edge to a member.
NoCriticalCycle(state) ==
    ~ \E S \in SUBSET DOMAIN state.roles :
        /\ S # {}
        /\ \A a \in S : \E i \in 1..Len(state.dependencies) :
               /\ state.dependencies[i].critical
               /\ state.dependencies[i].from_role_id = a
               /\ state.dependencies[i].to_role_id \in S

\* I7: every role ID is a non-empty string of letters, digits, '_' and '-'.
RoleIdFormatHolds(state) ==
    \A r \in DOMAIN state.roles :
        /\ Len(Chars(state.roles[r].id)) > 0
        /\ \A i \in 1..Len(Chars(state.roles[r].id)) : IsRoleIdChar(Chars(state.roles[r].id)[i])

\* C1: the state the engine holds, after initialize_state and after every
\* apply_event call whether accepted or rejected, satisfies I1 to I7.
InvariantClosure ==
    /\ DependencyRefsHold(engine.state)
    /\ NoOrphanedOutput(engine.state)
    /\ UniqueRoleIds(engine.state)
    /\ SomeRoleActive(engine.state)
    /\ NoEmptyResponsibilities(engine.state)
    /\ NoCriticalCycle(engine.state)
    /\ RoleIdFormatHolds(engine.state)

\* An accepted event left the engine with two roles, one of them produced by
\* the event.
InvariantClosureWitness ==
    /\ op.kind = "apply"
    /\ op.result = "ok"
    /\ Cardinality(DOMAIN engine.state.roles) >= 2
    /\ \E r \in DOMAIN engine.state.roles : engine.state.roles[r].produced_outputs # <<>>

\* C2: an apply_event call the engine rejects, for whatever reason, leaves
\* the engine's state and last_sequence what they were before the call.
RejectionLeavesEngine ==
    [][ (op'.kind = "apply" /\ op'.result # "ok") =>
            /\ engine'.state = engine.state
            /\ engine'.last_sequence = engine.last_sequence ]_vars

\* The invariant check refused the candidate state of an event in sequence.
RejectionLeavesEngineWitness ==
    /\ op.kind = "apply"
    /\ op.result = "INVARIANT:orphaned_output"
    /\ op.event.sequence = engine.last_sequence + 1
    /\ engine.last_sequence >= 1

\* C3: when the engine rejects the event inside Session::apply_event, the
\* store's last_sequence, the bytes of events.log, the session's
\* current_sequence and the snapshot files are unchanged.
ApplyPersistAtomicity ==
    [][ (op'.kind = "apply" /\ op'.result # "ok") =>
            UNCHANGED << event_store, file, current_sequence, snapshots >> ]_vars

\* A session with a log and a snapshot had an event in sequence rejected.
ApplyPersistAtomicityWitness ==
    /\ op.kind = "apply"
    /\ op.result \notin {"ok", "SequenceViolation", "SchemaVersionMismatch"}
    /\ file # <<>>
    /\ DOMAIN snapshots # {}
    /\ current_sequence >= 2

\* C4: after Session::new on the directory of a live session, or after
\* replay_full, the call succeeded and the engine's canonical hash is the
\* hash the live session had.
RecoveryEqualsLive ==
    (op.kind \in {"new", "replay_full"} /\ op.live # <<>>) =>
        /\ op.result = "ok"
        /\ canonical_hash(engine.state) = op.live

\* C5: opening a log that started empty and took N appends gives
\* last_sequence = N, and an append whose sequence is not last_sequence + 1
\* fails with a sequence violation and changes neither the file nor
\* last_sequence.
StoreSequenceDiscipline ==
    [][ /\ op'.kind = "store_open" =>
               /\ op'.result = "ok"
               /\ event_store'.last_sequence = Len(written)
        /\ (op'.kind = "store_append"
                /\ op'.event.sequence # event_store.last_sequence + 1) =>
               /\ op'.result = "SequenceViolation"
               /\ file' = file
               /\ event_store' = event_store ]_vars

\* A store was opened on a log of two or more appended frames.
StoreSequenceDisciplineWitness ==
    /\ op.kind = "store_open"
    /\ Len(written) >= 2
    /\ event_store.last_sequence = Len(written)

ConstantsFirstWhateverSequence ==
    (op.kind = "apply" /\ ~engine.constants_initialized) =>
        /\ engine.last_sequence = 0
        /\ op.event.event_type # "initialize_constants" =>
               op.result = "ConstantsNotInitialized"

\* C7, amended: in Awaiting-constants an event that is not
\* initialize_constants is rejected with SchemaVersionMismatch when its schema
\* version is not 1, else with SequenceViolation when its sequence is not 1,
\* else with ConstantsNotInitialized; the engine is left as it was; only
\* initialize_constants with sequence 1 and schema version 1 moves it to
\* Running.
ConstantsFirstInGateOrder ==
    [][ (op'.kind = "apply" /\ ~engine.constants_initialized) =>
            /\ engine.last_sequence = 0
            /\ op'.event.event_type # "initialize_constants" =>
                   /\ op'.result =
                        IF op'.event.schema_version # SCHEMA_VERSION
                        THEN "SchemaVersionMismatch"
                        ELSE IF op'.event.sequence # 1
                        THEN "SequenceViolation"
                        ELSE "ConstantsNotInitialized"
                   /\ engine' = engine
            /\ engine'.constants_initialized =>
                   /\ op'.event.event_type = "initialize_constants"
                   /\ op'.event.sequence = 1
                   /\ op'.event.schema_version = SCHEMA_VERSION
                   /\ op'.result = "ok" ]_vars

\* An engine in Awaiting-constants refused an event that is not
\* initialize_constants and does not carry sequence 1.
ConstantsFirstInGateOrderWitness ==
    /\ op.kind = "apply"
    /\ ~engine.constants_initialized
    /\ op.event.event_type = "remove_role"
    /\ op.event.schema_version = SCHEMA_VERSION
    /\ op.event.sequence = 2
    /\ op.result = "SequenceViolation"

SchemaLock ==
    [][ (op'.kind = "apply" /\ op'.event.schema_version # 1) =>
            /\ op'.result = "SchemaVersionMismatch"
            /\ UNCHANGED << engine, event_store, file, current_sequence, snapshots >> ]_vars

\* A running engine refused an initialize_constants event of schema version 2
\* whose sequence number was also wrong.
SchemaLockWitness ==
    /\ op.kind = "apply"
    /\ op.result = "SchemaVersionMismatch"
    /\ op.event.schema_version = 2
    /\ op.event.event_type = "initialize_constants"
    /\ op.event.sequence # engine.last_sequence + 1
    /\ engine.constants_initialized
    /\ file # <<>>

\* The lengths at which a log of the envelopes `protos` ends on a frame
\* boundary.
FrameBoundaries(protos) == { Len(LogBytes(SubSeq(protos, 1, j))) : j \in 0..Len(protos) }

\* events.log is what was written less some trailing bytes, and ends strictly
\* inside a frame.
EndsInsideFrame ==
    /\ Len(file) < Len(LogBytes(written))
    /\ file = SubSeq(LogBytes(written), 1, Len(file))
    /\ Len(file) \notin FrameBoundaries(written)

\* C10: EventStore::open and load_all_events fail with a corruption error on
\* every log that ends strictly inside a frame, in its length prefix or in
\* its body.
TruncatedFrameIsHardError ==
    (op.kind \in {"store_open", "store_load"} /\ EndsInsideFrame) =>
        op.result = "Corruption"

\* C11: for every envelope e the engine accepts in its current state,
\* proto_to_kernel(kernel_to_proto(e)) carries e's event_type, sequence and
\* logical_time, and the handler applied to the engine's state returns the
\* same state and TransitionResult for it as for e.
CodecRoundTrip ==
    \A e \in InputEvents(engine.last_sequence) :
        engine_apply_event(engine, e).ok =>
            /\ proto_to_kernel(kernel_to_proto(e)).event_type = e.event_type
            /\ proto_to_kernel(kernel_to_proto(e)).sequence = e.sequence
            /\ proto_to_kernel(kernel_to_proto(e)).logical_time = e.logical_time
            /\ Dispatch(engine.state, proto_to_kernel(kernel_to_proto(e)))
                   = Dispatch(engine.state, e)

SessionIsolation ==
    [][ /\ op'.kind = "peer_apply" =>
               /\ engine' = engine
               /\ canonical_hash(engine'.state) = canonical_hash(engine.state)
               /\ current_sequence' = current_sequence
               /\ file' = file
               /\ snapshots' = snapshots
        /\ op'.kind = "apply" =>
               /\ peer'.engine = peer.engine
               /\ canonical_hash(peer'.engine.state) = canonical_hash(peer.engine.state)
               /\ peer'.current_sequence = peer.current_sequence
               /\ PeerLog' = PeerLog
               /\ PeerSnapshots' = PeerSnapshots ]_vars

\* The threads that hold the lock, inside Session::apply_event.
InCriticalSection == { t \in ThreadIds : threads[t].pc \in {"locked", "applied", "persisted"} }

\* C14: at most one thread is inside Session::apply_event at a time; the
\* frames of events.log are the events the engine applied, in the order it
\* applied them, with the sequence numbers 1, 2, 3, ...; the engine is ahead
\* of the log by one event exactly while a thread stands between its engine
\* apply and its append.
SingleCriticalSection ==
    /\ Cardinality(InCriticalSection) <= 1
    /\ lock.held <=> InCriticalSection # {}
    /\ file = LogBytes(written)
    /\ \A i \in 1..Len(written) :
           /\ written[i].sequence = i
           /\ i <= Len(engine.state.event_history)
           /\ written[i] = kernel_to_proto(engine.state.event_history[i])
    /\ Len(engine.state.event_history) - Len(written) =
           IF \E t \in ThreadIds : threads[t].pc = "applied" THEN 1 ELSE 0
    /\ Len(engine.state.event_history) = engine.last_sequence

\* Events are in the log, one thread stands between its engine apply and its
\* append, and another thread waits for the lock with an event of its own.
SingleCriticalSectionWitness ==
    /\ Len(written) >= 2
    /\ Len(engine.state.event_history) = Len(written) + 1
    /\ \E t, u \in ThreadIds :
           /\ t # u
           /\ threads[t].pc = "applied"
           /\ threads[u].pc = "waiting"
           /\ threads[u].event # threads[t].event

IsPrefix(a, b) == Len(a) <= Len(b) /\ SubSeq(b, 1, Len(a)) = a

\* C15: whatever the step (an apply_event accepted or rejected, and the
\* append_event inside it, a Session::new, a replay_full), the bytes
\* events.log held before the step are a prefix of the bytes it holds after.
AppendOnly == [][ IsPrefix(file, file') ]_vars

\* An accepted event was appended behind two earlier frames.
AppendOnlyWitness ==
    /\ op.kind = "apply"
    /\ op.result = "ok"
    /\ Len(written) >= 3
    /\ file = LogBytes(written)
    /\ IsPrefix(LogBytes(SubSeq(written, 1, 2)), file)

\* C16: every snapshot file, read back by load_snapshot, passes
\* verify_snapshot_hash and carries the sequence of its name, and so does the
\* one load_latest_snapshot returns; the snapshot that an accepted event has
\* just caused holds canonical_serialize and canonical_hash of the state the
\* engine holds after that event.
SnapshotsVerifiable ==
    /\ \A s \in DOMAIN snapshots :
           /\ load_snapshot(snapshots, s).found
           /\ load_snapshot(snapshots, s).snap.sequence = s
           /\ verify_snapshot_hash(load_snapshot(snapshots, s).snap)
    /\ DOMAIN snapshots # {} =>
           /\ load_latest_snapshot(snapshots).found
           /\ verify_snapshot_hash(load_latest_snapshot(snapshots).snap)
    /\ (op.kind = "apply" /\ op.result = "ok" /\ SnapshotDue(snapshot_interval, op.event)) =>
           /\ load_snapshot(snapshots, op.event.sequence).found
           /\ load_snapshot(snapshots, op.event.sequence).snap.canonical_json
                  = canonical_serialize(engine.state)
           /\ load_snapshot(snapshots, op.event.sequence).snap.hash
                  = canonical_hash(engine.state)
           /\ load_latest_snapshot(snapshots).snap.hash = canonical_hash(engine.state)

\* The second event of a session with interval 2 left a state with a role,
\* and the snapshot of it is on disk.
SnapshotsVerifiableWitness ==
    /\ op.kind = "apply"
    /\ op.result = "ok"
    /\ op.event.sequence = 2
    /\ snapshot_interval = 2
    /\ 2 \in DOMAIN snapshots
    /\ DOMAIN engine.state.roles # {}

\* C17: an apply_event call writes the snapshot of sequence s, holding the
\* state after event s, when the event was accepted and persisted, the
\* interval is positive and divides s; otherwise it leaves the snapshot
\* directory as it was; load_latest_snapshot returns the snapshot whose
\* sequence is the highest in the directory.
SnapshotSchedule ==
    [][ op'.kind = "apply" =>
            /\ IF /\ op'.result = "ok"
                  /\ file' # file
                  /\ snapshot_interval > 0
                  /\ op'.event.sequence % snapshot_interval = 0
               THEN /\ DOMAIN snapshots' = DOMAIN snapshots \cup {op'.event.sequence}
                    /\ load_snapshot(snapshots', op'.event.sequence).snap
                           = MakeSnapshot(op'.event.sequence, engine'.state)
                    /\ \A s \in DOMAIN snapshots \ {op'.event.sequence} :
                           snapshots'[s] = snapshots[s]
               ELSE snapshots' = snapshots
            /\ DOMAIN snapshots' # {} =>
                   /\ load_latest_snapshot(snapshots').found
                   /\ load_latest_snapshot(snapshots').snap.sequence \in DOMAIN snapshots'
                   /\ \A s \in DOMAIN snapshots' :
                          s <= load_latest_snapshot(snapshots').snap.sequence ]_vars

\* A third snapshot was written behind two older ones.
SnapshotScheduleWitness ==
    /\ op.kind = "apply"
    /\ op.result = "ok"
    /\ op.event.sequence = 3
    /\ DOMAIN snapshots = {1, 2, 3}
    /\ load_latest_snapshot(snapshots).snap.sequence = 3

\* The remove_role event that follows the add_role event e.
RemoveOf(e) == Envelope("remove_role", e.sequence + 1, [role_id |-> e.payload.id], 1)

\* C18: from the state the engine holds, every add_role event it accepts
\* (whose role ID is therefore absent), followed at once by remove_role of
\* that ID, is accepted too and leaves a state with the canonical
\* serialization and the canonical hash of the state before the two events.
AddRemoveSymmetry ==
    \A e \in InputEvents(engine.last_sequence) :
        (e.event_type = "add_role" /\ engine_apply_event(engine, e).ok) =>
            /\ e.payload.id \notin DOMAIN engine.state.roles
            /\ engine_apply_event(engine_apply_event(engine, e).engine, RemoveOf(e)).ok
            /\ canonical_serialize(
                   engine_apply_event(engine_apply_event(engine, e).engine,
                                      RemoveOf(e)).engine.state)
                 = canonical_serialize(engine.state)
            /\ canonical_hash(
                   engine_apply_event(engine_apply_event(engine, e).engine,
                                      RemoveOf(e)).engine.state)
                 = canonical_hash(engine.state)

\* The session has just applied add_role and remove_role of one ID, one after
\* the other, and holds the canonical state it held before them.
AddRemoveSymmetryWitness ==
    /\ op.kind = "apply"
    /\ op.result = "ok"
    /\ op.event.event_type = "remove_role"
    /\ Len(engine.state.event_history) >= 3
    /\ engine.state.event_history[Len(engine.state.event_history) - 1].event_type = "add_role"
    /\ engine.state.event_history[Len(engine.state.event_history) - 1].payload.id
           = op.event.payload.role_id
    /\ canonical_serialize(engine.state)
           = canonical_serialize(
                 ApplyAll(initialize_state,
                          << Envelope("initialize_constants", 1,
                                      engine.state.event_history[1].payload, 1) >>).engine.state)

\* The differentiate_role events offered to engine eng that name one of its
\* roles.
DifferentiateInputs(eng) ==
    { e \in InputEvents(eng.last_sequence) :
        /\ e.event_type = "differentiate_role"
        /\ Has(e.payload, "role_id")
        /\ e.payload.role_id \in DOMAIN eng.state.roles }

\* Engine eng accepted event e as outcome r and nothing but event_history
\* and the sequence number changed.
OnlyHistoryGrew(eng, r, e) ==
    /\ r.ok
    /\ r.result.success
    /\ r.engine.last_sequence = e.sequence
    /\ r.engine.state.roles = eng.state.roles
    /\ r.engine.state.dependencies = eng.state.dependencies
    /\ r.engine.state.constraint_vector = eng.state.constraint_vector
    /\ r.engine.state.constants = eng.state.constants
    /\ r.engine.state.structural_debt = eng.state.structural_debt
    /\ r.engine.state.scale_stage = eng.state.scale_stage
    /\ Len(r.engine.state.event_history) = Len(eng.state.event_history) + 1
    /\ SubSeq(r.engine.state.event_history, 1, Len(eng.state.event_history))
           = eng.state.event_history

\* C19: a differentiate_role event on a role of the engine's state that has
\* no more responsibilities than differentiation_threshold is accepted with
\* differentiation_skipped set (and neither of the other two outcomes), and
\* only event_history grows, whatever the capacity index and new_roles are.
DifferentiationSkipped ==
    \A e \in DifferentiateInputs(engine) :
        (Len(engine.state.roles[e.payload.role_id].responsibilities)
             <= engine.state.constants.differentiation_threshold) =>
            /\ OnlyHistoryGrew(engine, engine_apply_event(engine, e), e)
            /\ engine_apply_event(engine, e).result.differentiation_skipped
            /\ ~engine_apply_event(engine, e).result.differentiation_executed
            /\ ~engine_apply_event(engine, e).result.suppressed_differentiation

\* The session has just skipped a differentiation whose event carries a
\* malformed new_roles entry, at a capacity index that would have allowed it.
DifferentiationSkippedWitness ==
    /\ op.kind = "apply"
    /\ op.result = "ok"
    /\ op.event.event_type = "differentiate_role"
    /\ op.tr.differentiation_skipped
    /\ Has(op.event.payload, "new_roles")
    /\ op.event.payload.new_roles = << [id |-> "a b", name |-> "C"] >>
    /\ organizational_capacity_index(engine.state.constraint_vector).v
           >= engine.state.constants.differentiation_min_capacity
    /\ engine.state.structural_debt = 0

\* Event e asks engine eng to differentiate a role that is over the
\* threshold while the capacity index is below differentiation_min_capacity.
SuppressionCase(eng, e) ==
    /\ OverThreshold(eng.state.roles[e.payload.role_id], eng.state.constants)
    /\ organizational_capacity_index(eng.state.constraint_vector).ok
    /\ organizational_capacity_index(eng.state.constraint_vector).v
           < eng.state.constants.differentiation_min_capacity

\* Engine eng accepted event e as outcome r, a suppressed differentiation:
\* the debt grew by the increment and only event_history grew besides.
SuppressedOutcome(eng, r, e) ==
    /\ r.ok
    /\ r.result.success
    /\ r.result.suppressed_differentiation
    /\ ~r.result.differentiation_executed
    /\ ~r.result.differentiation_skipped
    /\ r.engine.last_sequence = e.sequence
    /\ r.engine.state.structural_debt
           = eng.state.structural_debt
               + eng.state.constants.suppressed_differentiation_debt_increment
    /\ r.engine.state.roles = eng.state.roles
    /\ r.engine.state.dependencies = eng.state.dependencies
    /\ r.engine.state.constraint_vector = eng.state.constraint_vector
    /\ r.engine.state.constants = eng.state.constants
    /\ r.engine.state.scale_stage = eng.state.scale_stage
    /\ Len(r.engine.state.event_history) = Len(eng.state.event_history) + 1

KernelApplied(ty) ==
    /\ kernel.call.fn = "apply_event"
    /\ kernel.call.input.event_type = ty

\* The de-duplicated union of the responsibilities of roles src and tgt.
CombinedResponsibilities(state, src, tgt) ==
    SeqToSet(state.roles[src].responsibilities)
        \cup SeqToSet(state.roles[tgt].responsibilities)

\* C21: a compress_roles event fails with CompressionTooLarge exactly when
\* both roles exist and the de-duplicated union of their responsibilities
\* has more than compression_max_combined_responsibilities elements, and
\* after that failure the caller's state (roles, dependencies, debt,
\* history) is the state it passed in.
CompressionOversize ==
    KernelApplied("compress_roles") =>
        /\ (kernel.call.err = "CompressionTooLarge") <=>
              /\ kernel.call.input.payload.source_role_id \in DOMAIN kernel.call.before.roles
              /\ kernel.call.input.payload.target_role_id \in DOMAIN kernel.call.before.roles
              /\ Cardinality(CombinedResponsibilities(kernel.call.before,
                                 kernel.call.input.payload.source_role_id,
                                 kernel.call.input.payload.target_role_id))
                   > kernel.call.before.constants.compression_max_combined_responsibilities
        /\ (kernel.call.err = "CompressionTooLarge") =>
              /\ ~kernel.call.ok
              /\ kernel.state = kernel.call.before

\* A compression of a into b was refused for its size in a state with
\* dependency edges between the two roles.
CompressionOversizeWitness ==
    /\ KernelApplied("compress_roles")
    /\ kernel.call.err = "CompressionTooLarge"
    /\ kernel.call.input.payload.source_role_id = "a"
    /\ kernel.call.input.payload.target_role_id = "b"
    /\ Len(kernel.state.dependencies) = 2
    /\ kernel.state.dependencies[1].from_role_id = "a"
    /\ kernel.state.dependencies[1].to_role_id = "b"

\* The roles of a state joined to role t by an edge in either direction.
JoinedRoles(state, t) ==
    { r \in DOMAIN state.roles :
        \E i \in 1..Len(state.dependencies) :
            \/ state.dependencies[i].from_role_id = t /\ state.dependencies[i].to_role_id = r
            \/ state.dependencies[i].to_role_id = t /\ state.dependencies[i].from_role_id = r }

\* max(1, magnitude * (base multiplier + density of the target))
ExpectedPrimaryDebt(state, t, magnitude) ==
    Max(1, magnitude * (state.constants.shock_debt_base_multiplier
                          + compute_role_structural_density(t, state).v))

\* The sum over the roles of S of max(1, magnitude * density of the role).
RECURSIVE ExpectedSecondaryDebt(_, _, _)
ExpectedSecondaryDebt(state, S, magnitude) ==
    IF S = {} THEN 0
    ELSE LET r == CHOOSE x \in S : TRUE
         IN  Max(1, magnitude * compute_role_structural_density(r, state).v)
               + ExpectedSecondaryDebt(state, S \ {r}, magnitude)

\* C22: an inject_shock that returns adds to structural_debt exactly
\* primary_debt + secondary_debt, where primary_debt is max(1, magnitude *
\* (shock_debt_base_multiplier + target density)) and secondary_debt the sum,
\* over the distinct roles joined to the target by an edge in either
\* direction, of max(1, magnitude * that role's density), the densities being
\* those of the state before the event; the target is inactive afterwards
\* when magnitude > shock_deactivation_threshold and keeps its flag
\* otherwise; no other role and no edge changes.
ShockPropagation ==
    (KernelApplied("inject_shock") /\ kernel.call.ok) =>
        /\ kernel.call.result.primary_debt
             = ExpectedPrimaryDebt(kernel.call.before,
                                   kernel.call.input.payload.target_role_id,
                                   kernel.call.input.payload.magnitude)
        /\ kernel.call.result.secondary_debt
             = ExpectedSecondaryDebt(kernel.call.before,
                   JoinedRoles(kernel.call.before, kernel.call.input.payload.target_role_id),
                   kernel.call.input.payload.magnitude)
        /\ kernel.state.structural_debt
             = kernel.call.before.structural_debt
                 + kernel.call.result.primary_debt + kernel.call.result.secondary_debt
        /\ kernel.state.roles[kernel.call.input.payload.target_role_id].active
             = IF kernel.call.input.payload.magnitude
                    > kernel.call.before.constants.shock_deactivation_threshold
               THEN FALSE
               ELSE kernel.call.before.roles[kernel.call.input.payload.target_role_id].active
        /\ kernel.call.result.deactivated
             = (kernel.call.input.payload.magnitude
                    > kernel.call.before.constants.shock_deactivation_threshold)
        /\ DOMAIN kernel.state.roles = DOMAIN kernel.call.before.roles
        /\ \A r \in DOMAIN kernel.state.roles :
               [kernel.state.roles[r] EXCEPT !.active = TRUE]
                   = [kernel.call.before.roles[r] EXCEPT !.active = TRUE]
        /\ \A r \in DOMAIN kernel.state.roles \ {kernel.call.input.payload.target_role_id} :
               kernel.state.roles[r] = kernel.call.before.roles[r]
        /\ kernel.state.dependencies = kernel.call.before.dependencies

\* A shock of magnitude 9 has hit role a, which has one incoming and one
\* outgoing edge to two different roles: a is inactive now and the secondary
\* debt is that of both neighbours.
ShockPropagationWitness ==
    /\ KernelApplied("inject_shock")
    /\ kernel.call.ok
    /\ kernel.call.input.payload.target_role_id = "a"
    /\ kernel.call.input.payload.magnitude = 9
    /\ JoinedRoles(kernel.call.before, "a") = {"b", "c"}
    /\ kernel.call.before.dependencies[1].from_role_id = "c"
    /\ kernel.call.before.dependencies[2].to_role_id = "b"
    /\ kernel.call.before.roles["a"].active
    /\ ~kernel.state.roles["a"].active
    /\ kernel.call.result.secondary_debt = 2 * 9 * 5000
    /\ kernel.state.structural_debt = 9 * 10001 + 2 * 9 * 5000

\* C23: every event the session's engine accepts leaves structural_debt
\* non-negative and not below what it was before the event.
DebtNeverDecreases ==
    [][ (op'.kind = "apply" /\ op'.result = "ok") =>
            /\ engine'.state.structural_debt >= 0
            /\ engine'.state.structural_debt >= engine.state.structural_debt ]_vars

\* The role the last kernel call removed: the role of a remove_role, the
\* original of an executed differentiation, the source of a compression.
RemovedRole ==
    CASE kernel.call.input.event_type = "compress_roles"
           -> kernel.call.input.payload.source_role_id
      [] OTHER -> kernel.call.input.payload.role_id

\* The last kernel call returned and removed a role from a state that
\* satisfied the invariants.
RoleRemovalReturned ==
    /\ kernel.call.fn = "apply_event"
    /\ kernel.call.ok
    /\ validate_invariants(kernel.call.before) = "ok"
    /\ \/ kernel.call.input.event_type = "remove_role"
       \/ kernel.call.input.event_type = "differentiate_role"
            /\ kernel.call.result.differentiation_executed
       \/ kernel.call.input.event_type = "compress_roles"

\* C24: after a remove_role, an executed differentiate_role or a
\* compress_roles that returns from a state satisfying the invariants, no
\* dependency edge of the returned state has the removed role as an
\* endpoint, and the state satisfies I1.
RemovalDeletesEdges ==
    RoleRemovalReturned =>
        /\ \A i \in 1..Len(kernel.state.dependencies) :
               /\ kernel.state.dependencies[i].from_role_id # RemovedRole
               /\ kernel.state.dependencies[i].to_role_id # RemovedRole
        /\ DependencyRefsHold(kernel.state)

\* The tags of the invariants I1 to I7 that a state violates.
ViolatedTags(state) ==
    { t \in { "INVARIANT:role_id_format", "INVARIANT:dependency_refs",
              "INVARIANT:orphaned_output", "INVARIANT:duplicate_role_ids",
              "INVARIANT:no_active_roles", "INVARIANT:empty_responsibilities",
              "INVARIANT:critical_cycle" } :
        CASE t = "INVARIANT:role_id_format"       -> ~RoleIdFormatHolds(state)
          [] t = "INVARIANT:dependency_refs"      -> ~DependencyRefsHold(state)
          [] t = "INVARIANT:orphaned_output"      -> ~NoOrphanedOutput(state)
          [] t = "INVARIANT:duplicate_role_ids"   -> ~UniqueRoleIds(state)
          [] t = "INVARIANT:no_active_roles"      -> ~SomeRoleActive(state)
          [] t = "INVARIANT:empty_responsibilities" -> ~NoEmptyResponsibilities(state)
          [] OTHER                                -> ~NoCriticalCycle(state) }

\* C25: restore_snapshot returns Ok(state) or one of its structured errors:
\* DeserializationError for a text that is malformed, lacks a field or has
\* an unknown one; InvariantViolation naming a violated invariant whenever
\* the decoded state violates one of I1 to I7; Ok, with the decoded state,
\* only when all seven hold.
RestoreValidates ==
    kernel.call.fn = "restore_snapshot" =>
        /\ kernel.call.err \in {"", "DeserializationError", "InvariantViolation"}
        /\ kernel.call.ok <=> (kernel.call.err = "")
        /\ (kernel.call.input.json = "malformed" \/ ~WellFormed(kernel.call.input.value))
               <=> (kernel.call.err = "DeserializationError")
        /\ (kernel.call.err # "DeserializationError") =>
               /\ (ViolatedTags(kernel.call.input.value) # {})
                      <=> (kernel.call.err = "InvariantViolation")
               /\ (kernel.call.err = "InvariantViolation")
                      => kernel.call.msg \in ViolatedTags(kernel.call.input.value)
               /\ kernel.call.ok => kernel.state = kernel.call.input.value

\* The seven tags in the order of the checks.
CheckOrder ==
    << "INVARIANT:role_id_format", "INVARIANT:dependency_refs",
       "INVARIANT:orphaned_output", "INVARIANT:duplicate_role_ids",
       "INVARIANT:no_active_roles", "INVARIANT:empty_responsibilities",
       "INVARIANT:critical_cycle" >>

\* The outcomes of the seven hard checks on a state, in that order.
HardChecks(state) ==
    << check_role_id_format(state), check_dependency_refs(state),
       check_orphaned_outputs(state), check_duplicate_role_ids(state),
       check_at_least_one_active_role(state), check_no_empty_responsibilities(state),
       check_no_critical_cycles(state) >>

\* C26: on every state validate_invariants panics exactly when
\* try_validate_invariants returns Err, both name the same tag, and the tag
\* is that of the first check, in the order role_id_format, dependency_refs,
\* orphaned_output, duplicate_role_ids, no_active_roles,
\* empty_responsibilities, critical_cycle, that the state fails.
HardSoftAgree ==
    kernel.call.fn = "validate_invariants" =>
        /\ kernel.call.ok <=> (kernel.call.msg = "ok")
        /\ kernel.call.err = kernel.call.msg
        /\ kernel.call.ok <=> (\A i \in 1..7 : HardChecks(kernel.state)[i] = "ok")
        /\ ~kernel.call.ok =>
               \E i \in 1..7 :
                   /\ kernel.call.msg = CheckOrder[i]
                   /\ HardChecks(kernel.state)[i] = CheckOrder[i]
                   /\ \A j \in 1..(i - 1) : HardChecks(kernel.state)[j] = "ok"

\* Both checkers were run on a state with an edge to a missing role and a
\* critical self-loop: both name dependency_refs, the earlier of the two.
HardSoftAgreeWitness ==
    /\ kernel.call.fn = "validate_invariants"
    /\ kernel.call.err = "INVARIANT:dependency_refs"
    /\ kernel.call.msg = "INVARIANT:dependency_refs"
    /\ check_no_critical_cycles(kernel.state) = "INVARIANT:critical_cycle"
    /\ check_role_id_format(kernel.state) = "ok"

\* C27: an event list and a copy of it that differs in timestamps only are
\* either both rejected, at the same event, or both accepted with final
\* states of the same canonical serialization and hash; and the canonical
\* form of a final state is that of the state with an empty event_history
\* and the default constants.
TimestampsDoNotMatter ==
    op.kind = "retimed" =>
        /\ replays[1].phase = replays[2].phase
        /\ replays[1].pos = replays[2].pos
        /\ replays[1].hash = replays[2].hash
        /\ canonical_serialize(replays[1].engine.state)
               = canonical_serialize(replays[2].engine.state)
        /\ \A i \in 1..2 :
               canonical_serialize(replays[i].engine.state)
                   = canonical_serialize([replays[i].engine.state EXCEPT
                                            !.event_history = <<>>,
                                            !.constants = DefaultConstants])

\* A list of MaxSeq accepted events that leaves a role, and its copy as the
\* wire codec returns it, have been replayed: the final states differ (in
\* event_history) and the hashes are equal.
TimestampsDoNotMatterWitness ==
    /\ op.kind = "retimed"
    /\ Len(replay_events) = MaxSeq
    /\ op.live = << 1..MaxSeq, "" >>
    /\ replays[1].phase = "returned"
    /\ replays[2].phase = "returned"
    /\ DOMAIN replays[1].engine.state.roles # {}
    /\ replays[1].engine.state # replays[2].engine.state
    /\ replays[1].engine.state.constants # DefaultConstants
    /\ replays[1].hash = replays[2].hash

\* The orders in which the edges of a list can be listed.
Reorderings(deps) ==
    { [i \in 1..Len(deps) |-> deps[f[i]]] :
        f \in { g \in [1..Len(deps) -> 1..Len(deps)] :
                  \A i, j \in 1..Len(deps) : g[i] = g[j] => i = j } }

\* C28: a state and the same state with its dependency edges listed in
\* another order have the same canonical serialization and the same hash.
CanonicalFormUnique ==
    \A deps \in Reorderings(kernel.state.dependencies) :
        /\ canonical_serialize([kernel.state EXCEPT !.dependencies = deps])
               = canonical_serialize(kernel.state)
        /\ canonical_hash([kernel.state EXCEPT !.dependencies = deps])
               = canonical_hash(kernel.state)


\* A step of Session::apply_event that persisted its event: the store took
\* it, or the session counted it.
Persisted ==
    \/ written' # written
    \/ event_store'.last_sequence # event_store.last_sequence
    \/ current_sequence' # current_sequence

IsSortedListOf(s, S) ==
    /\ SeqToSet(s) = S
    /\ \A i \in 1..(Len(s) - 1) : StrLess(s[i], s[i + 1])

\* Edge d with every endpoint src replaced by tgt.
Redirected(d, src, tgt) ==
    [d EXCEPT !.from_role_id = IF @ = src THEN tgt ELSE @,
              !.to_role_id = IF @ = src THEN tgt ELSE @]

\* What the claim says of a state `after` reached from `before` by a
\* successful compression of role src into role tgt.
Compressed(before, after, src, tgt) ==
    /\ src \notin DOMAIN after.roles
    /\ tgt \in DOMAIN after.roles
    /\ IsSortedListOf(after.roles[tgt].responsibilities,
                      CombinedResponsibilities(before, src, tgt))
    /\ IsSortedListOf(after.roles[tgt].required_inputs,
                      SeqToSet(before.roles[src].required_inputs)
                          \cup SeqToSet(before.roles[tgt].required_inputs))
    /\ IsSortedListOf(after.roles[tgt].produced_outputs,
                      SeqToSet(before.roles[src].produced_outputs)
                          \cup SeqToSet(before.roles[tgt].produced_outputs))
    /\ after.roles[tgt].active = before.roles[tgt].active
    /\ after.roles[tgt].scale_stage = before.roles[tgt].scale_stage
    /\ after.dependencies =
          SelectSeq([i \in 1..Len(before.dependencies) |->
                        Redirected(before.dependencies[i], src, tgt)],
                    LAMBDA d : d.from_role_id # d.to_role_id)
    /\ \A i \in 1..Len(after.dependencies) :
          after.dependencies[i].from_role_id # after.dependencies[i].to_role_id

\* C30: after a successful compress_roles(source, target) the source role is
\* absent, the target's responsibilities, required_inputs and
\* produced_outputs are the sorted de-duplicated unions of the two roles'
\* lists, the target's active flag and scale_stage are unchanged, every edge
\* endpoint that was the source is the target, and no edge has equal
\* endpoints.
CompressionResult ==
    (KernelApplied("compress_roles") /\ kernel.call.ok) =>
        Compressed(kernel.call.before, kernel.state,
                   kernel.call.input.payload.source_role_id,
                   kernel.call.input.payload.target_role_id)


\* The role exists, has more responsibilities than the threshold, and the
\* capacity index reaches differentiation_min_capacity.
DifferentiationDue(state, role_id) ==
    /\ role_id \in DOMAIN state.roles
    /\ Len(state.roles[role_id].responsibilities) > state.constants.differentiation_threshold
    /\ organizational_capacity_index(state.constraint_vector).ok
    /\ organizational_capacity_index(state.constraint_vector).v
          >= state.constants.differentiation_min_capacity

\* The role stored under nr.id is the one the new-role spec nr lists for a
\* differentiation of `parent`.
ListedRole(roles, nr, parent) ==
    /\ nr.id \in DOMAIN roles
    /\ roles[nr.id].id = nr.id
    /\ roles[nr.id].name = nr.name
    /\ roles[nr.id].active
    /\ roles[nr.id].scale_stage = parent.scale_stage
    /\ roles[nr.id].purpose = (IF "purpose" \in DOMAIN nr THEN nr.purpose ELSE parent.purpose)
    /\ SeqToSet(roles[nr.id].required_inputs) =
          SeqToSet(IF "required_inputs" \in DOMAIN nr THEN nr.required_inputs
                   ELSE parent.required_inputs)
    /\ SeqToSet(roles[nr.id].responsibilities) =
          SeqToSet(IF "responsibilities" \in DOMAIN nr THEN nr.responsibilities ELSE <<>>)

\* The IDs listed in a new_roles array.
NewRoleIds(new_roles) == { new_roles[i].id : i \in 1..Len(new_roles) }

\* The only branch flag of the result is differentiation_executed.
OnlyExecutedFlag(result) ==
    /\ result.differentiation_executed
    /\ ~result.suppressed_differentiation
    /\ ~result.differentiation_skipped
    /\ ~result.compression_executed
    /\ ~result.deactivated

ConstraintStep ==
    /\ op'.kind = "apply"
    /\ op'.event.event_type = "apply_constraint_change"
    /\ engine.constants_initialized

\* Component k of the constraint vector after the deltas of payload p, in
\* unbounded arithmetic.
ComponentAfter(cv, p, k) ==
    cv[k] + (IF (k \o "_delta") \in DOMAIN p THEN p[k \o "_delta"] ELSE 0)

ConstraintComponents == {"capital", "talent", "time", "political_cost"}

InI64(x) == -I64_MAX - 1 <= x /\ x <= I64_MAX

\* C32: apply_constraint_change adds each delta (default 0) to its
\* component; it fails with NegativeConstraint when a resulting component is
\* below zero, and the engine state is then unchanged; the four components
\* are >= 0 in every committed engine state.
ConstraintsNeverNegative ==
    /\ [](\A k \in ConstraintComponents : engine.state.constraint_vector[k] >= 0)
    /\ [][ ConstraintStep =>
            LET cv == engine.state.constraint_vector
                p  == op'.event.payload
            IN  IF \E k \in ConstraintComponents : ~InI64(ComponentAfter(cv, p, k))
                THEN op'.result = "Overflow" /\ engine' = engine
                ELSE IF \E k \in ConstraintComponents : ComponentAfter(cv, p, k) < 0
                THEN op'.result = "NegativeConstraint" /\ engine' = engine
                ELSE /\ op'.result = "ok"
                     /\ \A k \in ConstraintComponents :
                           engine'.state.constraint_vector[k] = ComponentAfter(cv, p, k) ]_vars

\* A constraint change that would have taken capital to -1 was refused, in
\* an engine whose capital an earlier change had taken to 0.
ConstraintsNeverNegativeWitness ==
    /\ op.kind = "apply"
    /\ op.event.event_type = "apply_constraint_change"
    /\ op.result = "NegativeConstraint"
    /\ engine.state.constraint_vector.capital = 0
    /\ engine.state.constraint_vector.talent = 50001


\* The product a * b lies in the i64 range (decided by division, so that
\* the product itself is never formed when it does not).
ProductInI64(a, b) ==
    \/ a = 0
    \/ b = 0
    \/ (a > 0) = (b > 0) /\ Abs(a) <= I64_MAX \div Abs(b)
    \/ (a > 0) # (b > 0) /\ Abs(a) <= (I64_MAX + 1) \div Abs(b)

\* The capacity index of cv can be formed without leaving the i64 range.
CapacityInI64(cv) ==
    /\ InI64(cv.capital + cv.talent)
    /\ InI64(cv.time + cv.political_cost)
    /\ InI64((cv.capital + cv.talent) + (cv.time + cv.political_cost))

ExactCapacity(cv) ==
    TruncDiv((cv.capital + cv.talent) + (cv.time + cv.political_cost), 4)

\* The differentiate_role event reaches the arithmetic of the handler.
DifferentiationComputes(state, p) ==
    /\ "role_id" \in DOMAIN p
    /\ p.role_id \in DOMAIN state.roles
    /\ Len(state.roles[p.role_id].responsibilities) > state.constants.differentiation_threshold

\* The inject_shock event reaches the arithmetic of the handler, in a
\* state without dependency edges (every density is 0).
ShockComputes(state, p) ==
    /\ "target_role_id" \in DOMAIN p
    /\ "magnitude" \in DOMAIN p
    /\ p.target_role_id \in DOMAIN state.roles
    /\ state.dependencies = <<>>

\* The debt a suppressed differentiation or a shock adds, when it fits.
SuppressionAdds(state) == state.constants.suppressed_differentiation_debt_increment
ShockAdds(state, p) == Max(p.magnitude * state.constants.shock_debt_base_multiplier, 1)

\* Some addition or multiplication the handler of `event` performs on
\* `state` leaves the i64 range.
LeavesI64(state, event) ==
    LET p == event.payload
    IN  CASE event.event_type = "apply_constraint_change" ->
               \E k \in ConstraintComponents :
                   ~InI64(ComponentAfter(state.constraint_vector, p, k))
          [] event.event_type = "differentiate_role" ->
               /\ DifferentiationComputes(state, p)
               /\ \/ ~CapacityInI64(state.constraint_vector)
                  \/ /\ ExactCapacity(state.constraint_vector)
                          < state.constants.differentiation_min_capacity
                     /\ ~InI64(state.structural_debt + SuppressionAdds(state))
          [] event.event_type = "inject_shock" ->
               /\ ShockComputes(state, p)
               /\ \/ ~ProductInI64(p.magnitude, state.constants.shock_debt_base_multiplier)
                  \/ ~InI64(state.structural_debt + ShockAdds(state, p))
          [] OTHER -> FALSE

\* C33: an addition or multiplication of a transition that would leave the
\* signed 64-bit range fails with Overflow and leaves the engine state;
\* structural_debt and the constraint components never hold a wrapped value:
\* they stay in the range, and an accepted suppression or shock adds exactly
\* the increment or the product to the debt.
NoWraparound ==
    /\ [](/\ InI64(engine.state.structural_debt)
          /\ \A k \in ConstraintComponents : InI64(engine.state.constraint_vector[k]))
    /\ [][ (op'.kind = "apply" /\ engine.constants_initialized) =>
            /\ LeavesI64(engine.state, op'.event) =>
                  op'.result = "Overflow" /\ engine' = engine
            /\ ~LeavesI64(engine.state, op'.event) => op'.result # "Overflow"
            /\ (op'.result = "ok" /\ op'.tr.suppressed_differentiation) =>
                  engine'.state.structural_debt =
                      engine.state.structural_debt + SuppressionAdds(engine.state)
            /\ (op'.result = "ok" /\ op'.event.event_type = "inject_shock") =>
                  engine'.state.structural_debt =
                      engine.state.structural_debt
                          + ShockAdds(engine.state, op'.event.payload) ]_vars

\* A shock of magnitude 1 failed with Overflow in an engine whose debt an
\* earlier shock had taken to the top of the range.
NoWraparoundWitness ==
    /\ op.kind = "apply"
    /\ op.result = "Overflow"
    /\ op.event.event_type = "inject_shock"
    /\ op.event.payload.magnitude = 1
    /\ engine.state.structural_debt = I64_MAX


\* The pairs <<from, to>> joined by an edge with critical = true.
CriticalPairs(state) ==
    { << state.dependencies[i].from_role_id, state.dependencies[i].to_role_id >> :
        i \in { j \in 1..Len(state.dependencies) : state.dependencies[j].critical } }

\* y is reached from x by at least one and at most n critical edges.
RECURSIVE CriticalPath(_, _, _, _)
CriticalPath(pairs, x, y, n) ==
    /\ n > 0
    /\ \/ <<x, y>> \in pairs
       \/ \E e \in pairs : e[1] = x /\ CriticalPath(pairs, e[2], y, n - 1)

\* The critical edges contain a directed cycle.
HasCriticalCycle(state) ==
    \E e \in CriticalPairs(state) :
        CriticalPath(CriticalPairs(state), e[1], e[1], Len(state.dependencies))

\* A reported cycle: it starts and ends with the same ID, every entry is a
\* role, and each entry is joined to the one before it by a critical edge.
WellReportedCycle(state, cycle) ==
    /\ Len(cycle) >= 2
    /\ cycle[1] = cycle[Len(cycle)]
    /\ \A i \in 1..Len(cycle) : cycle[i] \in DOMAIN state.roles
    /\ \A i \in 1..(Len(cycle) - 1) : <<cycle[i + 1], cycle[i]>> \in CriticalPairs(state)

SessionCallReturned ==
    /\ alive
    /\ op.kind \in {"new", "apply", "replay_full"}
    /\ op.result = "ok"

\* The number of frames events.log holds.
FramesInLog == Len(read_all_from_file(file).events)

\* C35: after Session::new and after every successful apply_event or
\* replay_full the engine's last_sequence, the store's last_sequence, the
\* session's current_sequence and the number of frames in events.log are
\* equal, and the event a session accepts next is the one with sequence
\* current_sequence + 1.
SessionSequenceAgreement ==
    /\ [](SessionCallReturned =>
            /\ engine.last_sequence = current_sequence
            /\ event_store.last_sequence = current_sequence
            /\ read_all_from_file(file).ok
            /\ FramesInLog = current_sequence)
    /\ [][ (op'.kind = "apply" /\ op'.result = "ok") =>
              /\ op'.event.sequence = current_sequence + 1
              /\ current_sequence' = current_sequence + 1 ]_vars

\* A session accepted the third event after its directory had been opened
\* again with another snapshot interval (interval 2 and no snapshot of
\* sequence 2).
SessionSequenceAgreementWitness ==
    /\ SessionCallReturned
    /\ op.kind = "apply"
    /\ current_sequence = 3
    /\ FramesInLog = 3
    /\ snapshot_interval = 2
    /\ DOMAIN snapshots = {}


\* C36: no event creates a dependency edge: the dependencies list is empty
\* in every state reached from initialize_state through
\* OrgEngine::apply_event, so every accepted inject_shock reports
\* target_density = 0 and secondary_debt = 0 and adds exactly
\* max(1, magnitude * shock_debt_base_multiplier) to structural_debt.
NoEventCreatesEdge ==
    /\ [](engine.state.dependencies = <<>>)
    /\ [][ ( /\ op'.kind = "apply"
             /\ op'.result = "ok"
             /\ op'.event.event_type = "inject_shock" ) =>
              /\ op'.tr.target_density = 0
              /\ op'.tr.secondary_debt = 0
              /\ op'.tr.primary_debt =
                    Max(1, op'.event.payload.magnitude
                               * engine.state.constants.shock_debt_base_multiplier)
              /\ engine'.state.structural_debt =
                    engine.state.structural_debt + op'.tr.primary_debt ]_vars

\* A shock of magnitude 9 on role a was accepted by an engine with two
\* roles and multiplier 2: the debt is 18.
NoEventCreatesEdgeWitness ==
    /\ op.kind = "apply"
    /\ op.result = "ok"
    /\ op.event.event_type = "inject_shock"
    /\ op.event.payload.magnitude = 9
    /\ DOMAIN engine.state.roles = {"a", "b"}
    /\ engine.state.structural_debt = 18
    /\ engine.state.dependencies = <<>>


\* Thread t is inside a call of the SharedSession that has not returned.
InCall(t) == threads[t].pc \notin {"idle", "panicked"}

\* C37: a kernel rejection inside SharedSession::apply_event poisons the
\* SharedSession: the lock is poisoned from then on, and every apply_event,
\* current_hash and current_sequence call that is made or pending, from any
\* thread, ends in the lock-poisoned panic and changes nothing of the
\* session, also for an event the engine would accept.
RejectionPoisons ==
    /\ [][ ( /\ op'.kind = "shared_apply"
             /\ op'.result \notin {"ok", "LockPoisoned"}
             /\ op' # op ) => lock'.poisoned ]_vars
    /\ [][ lock.poisoned =>
              /\ lock'.poisoned
              /\ UNCHANGED << engine, event_store, current_sequence, file, written,
                              snapshots >>
              /\ \A t \in ThreadIds :
                    (InCall(t) /\ threads'[t] # threads[t]) =>
                        /\ threads'[t].pc = "panicked"
                        /\ op'.result = "LockPoisoned" ]_vars

\* After a rejection, a thread's apply_event with an event the engine would
\* accept ended in the lock-poisoned panic, and so did a read before it.
RejectionPoisonsWitness ==
    /\ lock.poisoned
    /\ op.kind = "shared_apply"
    /\ op.result = "LockPoisoned"
    /\ engine_apply_event(engine, op.event).ok
    /\ \E t \in ThreadIds : threads[t].pc = "panicked" /\ threads[t].event = NoEvent


\* The last kernel call was an executed differentiate_role.
DifferentiationWasExecuted ==
    /\ KernelApplied("differentiate_role")
    /\ kernel.call.ok
    /\ kernel.call.result.differentiation_executed

\* C38: an executed differentiate_role changes only the differentiated
\* role: every other role of the state before is present and unchanged
\* afterwards, whatever the new-role IDs are, and the number of roles grows
\* by the number of distinct new-role IDs minus one.
DifferentiationFrame ==
    DifferentiationWasExecuted =>
        LET p == kernel.call.input.payload
            before == kernel.call.before.roles
            after == kernel.state.roles
        IN  /\ \A r \in DOMAIN before \ {p.role_id} :
                  r \in DOMAIN after /\ after[r] = before[r]
            /\ Cardinality(DOMAIN after) =
                  Cardinality(DOMAIN before) + Cardinality(NewRoleIds(p.new_roles)) - 1


\* C39: after every successful compress_roles the target role ID is a key
\* of roles and the number of roles has gone down by exactly one, for every
\* pair of existing source and target IDs, equal ones included.
CompressionKeepsTarget ==
    (KernelApplied("compress_roles") /\ kernel.call.ok) =>
        /\ kernel.call.input.payload.target_role_id \in DOMAIN kernel.state.roles
        /\ Cardinality(DOMAIN kernel.state.roles) =
              Cardinality(DOMAIN kernel.call.before.roles) - 1


\* Each key of the roles map is the id of the role stored under it.
KeysAreIds(state) == \A k \in DOMAIN state.roles : state.roles[k].id = k

\* The ids the canonical serialization lists for the roles are pairwise
\* different and match the role-ID format.
ListedIdsSound(state) ==
    /\ \A k1, k2 \in DOMAIN state.roles :
          k1 # k2 => state.roles[k1].id # state.roles[k2].id
    /\ \A k \in DOMAIN state.roles : validate_role_id(state.roles[k].id)

\* C40: in every state committed by the engine and in every state accepted
\* by restore_snapshot each key of the roles map equals the id of the role
\* under it, so the canonical serialization lists no id twice and no id
\* outside the role-ID format.
RoleKeysAgree ==
    /\ KeysAreIds(engine.state) /\ ListedIdsSound(engine.state)
    /\ (kernel.call.fn = "restore_snapshot" /\ kernel.call.ok) =>
          KeysAreIds(kernel.state) /\ ListedIdsSound(kernel.state)

====
